---- MODULE Spec2Model ----
(***************************************************************************)
(* The short-code allocation and redirect-resolution path of the URL       *)
(* shortener: urlService (CreateURL, GetURL, UpdateURL, DeleteURL,         *)
(* RecordClick) over the urls / users / click_events tables and the Redis  *)
(* cache.  Every request runs in its own goroutine; a step of the model is *)
(* one store or cache call of one request together with the local          *)
(* computation that follows it up to the next call.                        *)
(***************************************************************************)
EXTENDS Integers, Sequences, FiniteSets, TLC

(***************************************************************************)
(* Bounds of the model.                                                    *)
(***************************************************************************)
MaxCalls == 3
MaxTime == 1
UserLinkLimit == 2

(***************************************************************************)
(* Program constants.                                                      *)
(***************************************************************************)
maxAttempts == 10
length == 8
MinCustomLen == 3
MaxCustomLen == 20

Procs == {1, 2}
Users == {1, 2}
Times == 0..MaxTime

(***************************************************************************)
(* Strings are sequences of one-character strings.                         *)
(***************************************************************************)
Lower == {"a","b","c","d","e","f","g","h","i","j","k","l","m",
          "n","o","p","q","r","s","t","u","v","w","x","y","z"}
Upper == {"A","B","C","D","E","F","G","H","I","J","K","L","M",
          "N","O","P","Q","R","S","T","U","V","W","X","Y","Z"}
Digit == {"0","1","2","3","4","5","6","7","8","9"}

charset == <<"a","b","c","d","e","f","g","h","i","j","k","l","m",
             "n","o","p","q","r","s","t","u","v","w","x","y","z",
             "A","B","C","D","E","F","G","H","I","J","K","L","M",
             "N","O","P","Q","R","S","T","U","V","W","X","Y","Z",
             "0","1","2","3","4","5","6","7","8","9">>

Empty == << >>
HttpPrefix == <<"h","t","t","p",":","/","/">>
HttpsPrefix == <<"h","t","t","p","s",":","/","/">>

HasPrefix(s, pre) == Len(s) >= Len(pre) /\ SubSeq(s, 1, Len(pre)) = pre

\* strings.Contains
Contains(s, sub) == \E k \in 1..(Len(s) - Len(sub) + 1) : SubSeq(s, k, k + Len(sub) - 1) = sub

RECURSIVE TrimLeft(_)
TrimLeft(s) == IF s # Empty /\ Head(s) = " " THEN TrimLeft(Tail(s)) ELSE s

RECURSIVE TrimRight(_)
TrimRight(s) ==
    IF s # Empty /\ s[Len(s)] = " " THEN TrimRight(SubSeq(s, 1, Len(s) - 1)) ELSE s

TrimSpace(s) == TrimRight(TrimLeft(s))

(***************************************************************************)
(* Values standing for nil / absent.                                       *)
(***************************************************************************)
NoTime == 0 - 1
NoURL == [id |-> 0]
NoEntry == Empty

(***************************************************************************)
(* url.Parse on a normalised string (one that starts with http:// or       *)
(* https://), for strings over letters, digits and " . - : / ? #": the     *)
(* authority runs up to the first of / ? #, a space in it is an invalid    *)
(* host character and a port must be digits.                               *)
(***************************************************************************)
RECURSIVE TakeAuthority(_)
TakeAuthority(s) ==
    IF s = Empty \/ Head(s) \in {"/", "?", "#"} THEN Empty
    ELSE <<Head(s)>> \o TakeAuthority(Tail(s))

RECURSIVE AfterColon(_)
AfterColon(s) ==
    IF s = Empty THEN Empty
    ELSE IF Head(s) = ":" THEN Tail(s) ELSE AfterColon(Tail(s))

ParseURL(s) ==
    LET scheme == IF HasPrefix(s, HttpsPrefix) THEN "https"
                  ELSE IF HasPrefix(s, HttpPrefix) THEN "http" ELSE ""
        rest == IF scheme = "https" THEN SubSeq(s, Len(HttpsPrefix) + 1, Len(s))
                ELSE IF scheme = "http" THEN SubSeq(s, Len(HttpPrefix) + 1, Len(s))
                ELSE Empty
        host == TakeAuthority(rest)
        port == AfterColon(host)
        err == \/ \E k \in 1..Len(host) : host[k] = " "
               \/ \E k \in 1..Len(port) : port[k] \notin Digit
    IN  [err |-> err, Scheme |-> scheme, Host |-> host]

(***************************************************************************)
(* models: normalisation and request validation.                           *)
(***************************************************************************)
\* A normalisation that prefixes the scheme whatever the input starts with.
NormalizeURL_AlwaysPrefix(s) == HttpsPrefix \o TrimSpace(s)

\* URL.NormalizeURL, and the same two statements in the Validate methods.
NormalizeURL(s) ==
    LET t == TrimSpace(s)
    IN  IF ~HasPrefix(t, HttpPrefix) /\ ~HasPrefix(t, HttpsPrefix)
        THEN HttpsPrefix \o t ELSE t

\* A check that lets every character through.
ValidCustomChar_Any(ch) == TRUE

\* The characters of a custom code.
ValidCustomChar(ch) == ch \in Lower \/ ch \in Upper \/ ch \in Digit \/ ch = "-"

\* CreateURLRequest.Validate: the error flag and the request as it leaves
\* Validate (req.URL is normalised in place).
CreateValidate(rawURL, customCode, expiresAt, t) ==
    IF rawURL = Empty THEN [err |-> TRUE, URL |-> rawURL]
    ELSE LET u == NormalizeURL(rawURL)
             parsed == ParseURL(u)
         IN  IF parsed.err \/ parsed.Scheme = "" \/ parsed.Host = Empty
             THEN [err |-> TRUE, URL |-> u]
             ELSE IF /\ customCode # Empty
                     /\ \/ Len(customCode) < MinCustomLen
                        \/ Len(customCode) > MaxCustomLen
                        \/ \E k \in 1..Len(customCode) : ~ValidCustomChar(customCode[k])
             THEN [err |-> TRUE, URL |-> u]
             ELSE IF expiresAt # NoTime /\ expiresAt < t
             THEN [err |-> TRUE, URL |-> u]
             ELSE [err |-> FALSE, URL |-> u]

\* An update validation that does not look at the target.
UpdateValidate_NoHostCheck(rawURL, expiresAt, t) ==
    LET u == IF rawURL # Empty THEN NormalizeURL(rawURL) ELSE rawURL
    IN  [err |-> expiresAt # NoTime /\ expiresAt < t, URL |-> u]

\* UpdateURLRequest.Validate.
UpdateValidate(rawURL, expiresAt, t) ==
    LET u == IF rawURL # Empty THEN NormalizeURL(rawURL) ELSE rawURL
        parsed == ParseURL(u)
    IN  IF rawURL # Empty /\ (parsed.err \/ parsed.Scheme = "" \/ parsed.Host = Empty)
        THEN [err |-> TRUE, URL |-> u]
        ELSE IF expiresAt # NoTime /\ expiresAt < t
        THEN [err |-> TRUE, URL |-> u]
        ELSE [err |-> FALSE, URL |-> u]

\* The comparison the wrong way round.
IsExpired_Reversed(url, t) == IF url.expires_at = NoTime THEN FALSE ELSE t < url.expires_at

\* URL.IsExpired at time t.
IsExpired(url, t) == IF url.expires_at = NoTime THEN FALSE ELSE t > url.expires_at

\* A quota test that lets the owner reach limit + 1.
CanCreateLink_Inclusive(user) == user.link_count <= user.link_limit

\* User.CanCreateLink.
CanCreateLink(user) == user.link_count < user.link_limit

(***************************************************************************)
(* The code generator: one random byte per position, reduced modulo the    *)
(* alphabet size.                                                          *)
(***************************************************************************)
randomInt(byte, max) == byte % max

generateShortCode(bytes) == [k \in 1..length |-> charset[randomInt(bytes[k], Len(charset)) + 1]]

(***************************************************************************)
(* Inputs of the requests.                                                 *)
(***************************************************************************)
CodeA == <<"a","a","a","a","a","a","a","a">>
CodeB == <<"b","b","b","b","b","b","b","b">>
CodeH == <<"h","e","a","l","t","h","y">>

TargetA == <<" ","a",".","c","o">>
TargetB == HttpPrefix \o <<"b",".","c","o">>

\* Raw targets of a create request: one that needs trimming and a scheme, and
\* one without host.
RawTargets == { TargetA, HttpPrefix }

\* Custom codes: none, a valid one (which the generator can also produce),
\* and one too short.
CustomCodes == { Empty, CodeA, <<"a","b">> }

\* What crypto/rand may deliver for one generated code.
RandDraws == { [k \in 1..length |-> 0], [k \in 1..length |-> 1], [k \in 1..length |-> 62] }

\* The codes a request path may carry.
Codes == { CodeA, CodeB, CodeH }

ExpiryInputs == {NoTime} \cup Times

\* The patches of an update request: nothing, each field alone, a new target
\* with a deactivation, and a target without host.
Patch(u, a, e) == [OriginalURL |-> u, IsActive |-> a, ExpiresAt |-> e]

Patches ==
    { Patch(Empty, "nil", NoTime), Patch(TargetB, "nil", NoTime),
      Patch(Empty, "false", NoTime), Patch(Empty, "true", NoTime),
      Patch(TargetB, "false", NoTime), Patch(HttpPrefix, "nil", NoTime) }
    \cup { Patch(Empty, "nil", e) : e \in Times }

(***************************************************************************)
(* State.                                                                  *)
(*   now          the wall clock                                           *)
(*   urls         the urls table, a set of rows                            *)
(*   nextId       the urls.id sequence                                     *)
(*   users        the users table: link_count and link_limit of each user  *)
(*   click_events the click_events table, a set of rows                    *)
(*   cacheURL     the url:{code} keys of the cache                         *)
(*   cacheClicks  the clicks:{code} keys of the cache                      *)
(*   call         the request each goroutine is serving: its arguments,    *)
(*                locals, position, result, and a record of the store and  *)
(*                cache calls it has issued and of what they met (io: the  *)
(*                calls issued; held0, held: the custom code was taken at  *)
(*                entry, a checked code was taken; quota: what the user    *)
(*                read found; conflict: the insert met the UNIQUE          *)
(*                constraint; cacheOK: the last cache call succeeded;      *)
(*                sawCache, sawWrite, tRead: the cache entry, the last     *)
(*                write and the time at the read of GetURL; was, hit,      *)
(*                tCheck: the row UpdateURL read, the row its UPDATE       *)
(*                found, and the time of its expiry check; inClick, got,   *)
(*                target, clicked, resp: in Handler.RedirectURL, whether   *)
(*                RecordClick has been entered, what the handler's GetURL  *)
(*                returned, the target it returned, whether the click was  *)
(*                persisted, and the response written)                     *)
(*   started      the number of requests started so far                    *)
(*   beside       for each goroutine, whether another CreateURL call of    *)
(*                the same owner has run beside its CreateURL call         *)
(*   email_queue, email_delay_queue   the messages in the two RabbitMQ      *)
(*                queues, oldest first                                     *)
(*   delivery     the message the consumer holds unacknowledged, and where *)
(*                the consumer is with it                                  *)
(*   handled      for each message published, how often it has been handed *)
(*                to the send handler (history)                            *)
(*   otp_verifications   the rows of the table of that name, in the order  *)
(*                of their ids; a deleted row keeps its place, marked      *)
(*   lastWrite    for each code, the kind of the last write to its urls    *)
(*                row and the goroutine that issued it (history)           *)
(***************************************************************************)
VARIABLES now, urls, nextId, users, click_events, cacheURL, cacheClicks, call, started,
          lastWrite, beside,
          email_queue, email_delay_queue, delivery, handled, otp_verifications

vars == <<now, urls, nextId, users, click_events, cacheURL, cacheClicks, call, started,
          lastWrite, beside,
          email_queue, email_delay_queue, delivery, handled, otp_verifications>>

\* The state of the mail queue, and the state of the link service.
mail == <<email_queue, email_delay_queue, delivery, handled>>

links == <<urls, nextId, users, click_events, cacheURL, cacheClicks, lastWrite, beside>>

\* No message in a queue or in the consumer's hands.
NoMail == [id |-> 0, Retry |-> 0, MaxRetries |-> 0]

MailIdle ==
    /\ email_queue = <<>> /\ email_delay_queue = <<>>
    /\ delivery = [msg |-> NoMail, pc |-> "wait", failed |-> FALSE]
    /\ handled = <<>>

\* No row of otp_verifications.
NoOTP == [id |-> 0]

NoResp == [status |-> 0, page |-> "none", target |-> Empty, code |-> "none"]

NoIO == [exists |-> 0, insert |-> 0, cacheSet |-> 0, cacheDel |-> 0]

Idle ==
    [ op |-> "none", pc |-> "done", ret |-> "none",
      shortCode |-> Empty, userID |-> 0,
      rawURL |-> Empty, reqURL |-> Empty, reqCustom |-> Empty,
      reqActive |-> "nil", reqExpires |-> NoTime,
      url |-> NoURL, i |-> 0, evict |-> FALSE,
      io |-> NoIO, conflict |-> FALSE, held |-> FALSE, held0 |-> FALSE, quota |-> "unread",
      cacheOK |-> TRUE, sawCache |-> NoEntry, sawWrite |-> "none", tRead |-> NoTime,
      was |-> NoURL, hit |-> NoURL, tCheck |-> NoTime,
      inClick |-> FALSE, got |-> "none", target |-> Empty, clicked |-> FALSE,
      resp |-> NoResp, passes |-> 0, first |-> Empty, bytes |-> Empty,
      limit |-> 0, offset |-> 0, total |-> 0, rows |-> Empty, fault |-> Empty,
      otp |-> NoOTP, otpCode |-> "", purpose |-> "", isVerified |-> FALSE,
      user |-> [link_count |-> 0, link_limit |-> 0], stage |-> 0, kept |-> NoURL, recent |-> {} ]

Init ==
    /\ now = 0
    /\ urls = {}
    /\ nextId = 1
    /\ users = [u \in Users |-> [link_count |-> 0, link_limit |-> UserLinkLimit]]
    /\ click_events = {}
    /\ cacheURL = [c \in Codes |-> NoEntry]
    /\ cacheClicks = [c \in Codes |-> 0]
    /\ call = [p \in Procs |-> Idle]
    /\ started = 0
    /\ beside = [p \in Procs |-> FALSE]
    /\ MailIdle
    /\ otp_verifications = <<>>
    /\ lastWrite = [c \in Codes |-> [kind |-> "none", by |-> 0]]

Free(p) == call[p].pc = "done" /\ started < MaxCalls

Become(p, rec) == call' = [call EXCEPT ![p] = rec]

Finish(rec, result) == [rec EXCEPT !.pc = "done", !.ret = result]

\* A cache error handed back to the caller.
CacheResult_Surfaced(ok, result) == IF ok THEN result ELSE "REDIS_ERROR"

\* What a call goes on with after a cache call: the error of the cache call
\* (~ok) is logged or dropped, never returned.
CacheResult(ok, result) == result

IOPlus(rec, field) == [rec EXCEPT !.io[field] = @ + 1]

(***************************************************************************)
(* The repositories.                                                       *)
(***************************************************************************)
\* The error texts of urlRepository.GetByShortCode: "URL not found" for
\* sql.ErrNoRows, and "failed to get URL: " followed by the text of any
\* other error of the driver.
ErrNoRowsText == <<"U","R","L"," ","n","o","t"," ","f","o","u","n","d">>
ReadErrorText(fault) == <<"f","a","i","l","e","d"," ","t","o"," ","g","e","t"," ","U","R","L",":"," ">> \o fault

\* What the driver may report when the query fails: a refused connection, a
\* cancelled request context.
ReadFaults == { <<"c","o","n","n","e","c","t","i","o","n"," ","r","e","f","u","s","e","d">>, <<"c","o","n","t","e","x","t"," ","c","a","n","c","e","l","e","d">> }

\* A classification that takes every read error for a missing row.
ClassifyReadError_AllNotFound(text) == "NOT_FOUND"

\* GetURL on an error of GetByShortCode: strings.Contains(err.Error(),
\* "not found") decides between NewNotFoundError and NewDatabaseError.
ClassifyReadError(text) ==
    IF Contains(text, <<"n","o","t"," ","f","o","u","n","d">>) THEN "NOT_FOUND" ELSE "DATABASE_ERROR"

\* urlRepository.GetByShortCode: the row, or NoURL for sql.ErrNoRows.
GetByShortCode(code) ==
    IF \E r \in urls : r.short_code = code
    THEN CHOOSE r \in urls : r.short_code = code
    ELSE NoURL

\* A check that never finds the code.
ExistsByShortCode_Never(code) == FALSE

\* urlRepository.ExistsByShortCode.
ExistsByShortCode(code) == \E r \in urls : r.short_code = code

\* An ownership check that only looks for the code.
CheckOwnership_AnyOwner(code, userID) ==
    Cardinality({r \in urls : r.short_code = code}) > 0

\* urlRepository.CheckOwnership.
CheckOwnership(code, userID) ==
    Cardinality({r \in urls : r.short_code = code /\ r.user_id = userID}) > 0

\* A table without the constraint.
UniqueViolation_Unenforced(code) == FALSE

\* The UNIQUE constraint on urls.short_code, as an insert meets it.
UniqueViolation(code) == \E r \in urls : r.short_code = code

\* cacheRepository.SetURL / DeleteURL: the call either takes effect or fails
\* and leaves the key alone.
CacheSetURL(code, target, ok) ==
    cacheURL' = IF ok THEN [cacheURL EXCEPT ![code] = target] ELSE cacheURL

\* A DeleteURL that reports success and leaves the key in place.
CacheDeleteURL_Keeps(code, ok) ==
    cacheURL' = cacheURL

\* cacheRepository.DeleteURL.
CacheDeleteURL(code, ok) ==
    cacheURL' = IF ok THEN [cacheURL EXCEPT ![code] = NoEntry] ELSE cacheURL

(***************************************************************************)
(* urlService.CreateURL                                                    *)
(***************************************************************************)
\* Another CreateURL call of the same owner is under way beside p's.
Overlaps(p, q, user) ==
    q # p /\ call[q].op = "CreateURL" /\ call[q].pc # "done" /\ call[q].userID = user

\* Entry and req.Validate(). beside records that another CreateURL call of
\* the owner has been under way beside this one.
CreateCallWith(p, raws, customs, exps, owners) ==
    /\ Free(p)
    /\ \E raw \in raws, custom \in customs, exp \in exps, user \in owners :
         LET v == CreateValidate(raw, custom, exp, now)
             rec == [Idle EXCEPT !.op = "CreateURL", !.userID = user, !.rawURL = raw,
                                 !.reqURL = v.URL, !.reqCustom = custom,
                                 !.reqExpires = exp,
                                 !.held0 = \E r \in urls : r.short_code = custom]
         IN  IF v.err
             THEN /\ Become(p, Finish(rec, "VALIDATION_ERROR"))
                  /\ beside' = [beside EXCEPT ![p] = FALSE]
             ELSE /\ Become(p, [rec EXCEPT !.pc = "c_user"])
                  /\ beside' = [q \in Procs |->
                                   IF q = p THEN \E o \in Procs : Overlaps(p, o, user)
                                   ELSE beside[q] \/ Overlaps(p, q, user)]
    /\ started' = started + 1
    /\ UNCHANGED <<now, urls, nextId, users, click_events, cacheURL, cacheClicks>>
    /\ UNCHANGED <<lastWrite, mail, otp_verifications>>

\* userRepo.GetByID and the quota check; then the branch on req.CustomCode.
CreateGetUser(p) ==
    /\ call[p].pc = "c_user"
    /\ LET user == users[call[p].userID]
           rec == [call[p] EXCEPT !.quota = IF user.link_count >= user.link_limit
                                            THEN "at limit" ELSE "below"]
       IN  Become(p, IF ~CanCreateLink(user) THEN Finish(rec, "VALIDATION_ERROR")
                     ELSE IF rec.reqCustom = Empty THEN [rec EXCEPT !.pc = "c_gen"]
                     ELSE [rec EXCEPT !.pc = "c_exists", !.shortCode = rec.reqCustom])
    /\ UNCHANGED <<now, urls, nextId, users, click_events, cacheURL, cacheClicks, started>>
    /\ UNCHANGED <<lastWrite, beside, mail, otp_verifications>>

\* A loop that runs one round too many.
LoopContinues_Inclusive(i) == i <= maxAttempts

\* The loop test of generateUniqueShortCode.
LoopContinues(i) == i < maxAttempts

\* One round of generateUniqueShortCode: generate, ExistsByShortCode, and the
\* loop test that follows.
CreateGenerate(p) ==
    /\ call[p].pc = "c_gen"
    /\ \E bytes \in RandDraws :
         LET code == generateShortCode(bytes)
             rec == IOPlus(call[p], "exists")
         IN  Become(p, IF ~ExistsByShortCode(code)
                       THEN [rec EXCEPT !.shortCode = code, !.pc = "c_insert"]
                       ELSE IF LoopContinues(rec.i + 1)
                       THEN [rec EXCEPT !.i = @ + 1, !.held = TRUE]
                       ELSE Finish([rec EXCEPT !.i = @ + 1, !.held = TRUE], "INTERNAL_ERROR"))
    /\ UNCHANGED <<now, urls, nextId, users, click_events, cacheURL, cacheClicks, started>>
    /\ UNCHANGED <<lastWrite, beside, mail, otp_verifications>>

\* The existence check of a custom code.
CreateExists(p) ==
    /\ call[p].pc = "c_exists"
    /\ LET rec == [IOPlus(call[p], "exists") EXCEPT
                       !.held = \E r \in urls : r.short_code = call[p].shortCode]
       IN  Become(p, IF ExistsByShortCode(rec.shortCode)
                     THEN Finish(rec, "ALREADY_EXISTS")
                     ELSE [rec EXCEPT !.pc = "c_insert"])
    /\ UNCHANGED <<now, urls, nextId, users, click_events, cacheURL, cacheClicks, started>>
    /\ UNCHANGED <<lastWrite, beside, mail, otp_verifications>>

\* A row built from the target as submitted.
NewURL_RawTarget(rec, id) ==
    [ id |-> id, short_code |-> rec.shortCode,
      original_url |-> rec.rawURL, user_id |-> rec.userID,
      click_count |-> 0, is_active |-> TRUE, expires_at |-> rec.reqExpires,
      created_at |-> now ]

\* The models.URL that CreateURL builds, as the INSERT stores it under id.
NewURL(rec, id) ==
    [ id |-> id, short_code |-> rec.shortCode,
      original_url |-> rec.reqURL, user_id |-> rec.userID,
      click_count |-> 0, is_active |-> TRUE, expires_at |-> rec.reqExpires,
      created_at |-> now ]

\* An insert trigger that leaves the count alone.
increment_user_link_count_Missing(count) == count

\* increment_user_link_count, run by urls_insert_trigger for the new row.
increment_user_link_count(count) == count + 1

\* urlRepo.Create: the INSERT, with the insert trigger on users.link_count.
CreateInsert(p) ==
    /\ call[p].pc = "c_insert"
    /\ LET rec == IOPlus(call[p], "insert")
           row == NewURL(rec, nextId)
       IN  IF UniqueViolation(rec.shortCode)
           THEN /\ Become(p, Finish([rec EXCEPT !.conflict = TRUE], "DATABASE_ERROR"))
                /\ UNCHANGED <<urls, nextId, users, lastWrite, beside, mail, otp_verifications>>
           ELSE /\ urls' = urls \cup {row}
                /\ lastWrite' = [lastWrite EXCEPT ![rec.shortCode] = [kind |-> "insert", by |-> p]]
                /\ UNCHANGED <<beside, mail, otp_verifications>>
                /\ nextId' = nextId + 1
                /\ users' = [users EXCEPT ![rec.userID].link_count =
                                              increment_user_link_count(@)]
                /\ Become(p, [rec EXCEPT !.url = row, !.pc = "c_cache"])
    /\ UNCHANGED <<now, click_events, cacheURL, cacheClicks, started>>

\* cacheRepo.SetURL, whose failure is logged only; then the response.
CreateCache(p) ==
    /\ call[p].pc = "c_cache"
    /\ \E ok \in BOOLEAN :
         /\ CacheSetURL(call[p].shortCode, call[p].reqURL, ok)
         /\ Become(p, Finish([IOPlus(call[p], "cacheSet") EXCEPT !.cacheOK = ok],
                              CacheResult(ok, "ok")))
    /\ UNCHANGED <<now, urls, nextId, users, click_events, cacheClicks, started>>
    /\ UNCHANGED <<lastWrite, beside, mail, otp_verifications>>

\* The clock.
Tick ==
    /\ now < MaxTime
    /\ now' = now + 1
    /\ UNCHANGED <<urls, nextId, users, click_events, cacheURL, cacheClicks, call, started>>
    /\ UNCHANGED <<lastWrite, beside, mail, otp_verifications>>

(***************************************************************************)
(* urlService.GetURL (also the first part of RecordClick)                  *)
(***************************************************************************)
GetCallWith(p, codes) ==
    /\ Free(p)
    /\ \E code \in codes :
         LET rec == [Idle EXCEPT !.op = "GetURL", !.shortCode = code]
         IN  Become(p, IF code = Empty THEN Finish(rec, "VALIDATION_ERROR")
                       ELSE [rec EXCEPT !.pc = "g_read"])
    /\ started' = started + 1
    /\ UNCHANGED <<now, urls, nextId, users, click_events, cacheURL, cacheClicks>>
    /\ UNCHANGED <<lastWrite, beside, mail, otp_verifications>>

\* A decision that serves whatever the cache still holds.
GetURLOutcome_TrustCache(url, t) ==
    IF cacheURL[url.short_code] # NoEntry THEN "ok"
    ELSE IF IsExpired(url, t) THEN "URL_EXPIRED"
    ELSE IF ~url.is_active THEN "URL_INACTIVE"
    ELSE "ok"

\* A decision that looks at the active flag before the expiry.
GetURLOutcome_ActiveFirst(url, t) ==
    IF ~url.is_active THEN "URL_INACTIVE"
    ELSE IF IsExpired(url, t) THEN "URL_EXPIRED"
    ELSE "ok"

\* The decision GetURL takes on the row it has read, at time t.
GetURLOutcome(url, t) ==
    IF IsExpired(url, t) THEN "URL_EXPIRED"
    ELSE IF ~url.is_active THEN "URL_INACTIVE"
    ELSE "ok"

\* A RecordClick that goes on whatever GetURL returned.
RecordProceeds_Always(ret) == TRUE

\* RecordClick goes on to the click event only if GetURL returned no error.
RecordProceeds(ret) == ret = "ok"

\* A call of the service returning ret: to the client, or to
\* Handler.RedirectURL, which called RecordClick.
Return(rec, ret) ==
    IF rec.op = "RedirectURL" THEN [rec EXCEPT !.pc = "h_redirect", !.ret = ret]
    ELSE Finish(rec, ret)

\* A handler that redirects without calling RecordClick.
AfterHandlerGet_NoClick(rec) ==
    [rec EXCEPT !.got = "ok", !.target = rec.url.original_url, !.pc = "h_redirect"]

\* Handler.RedirectURL after its GetURL succeeded: it keeps the record and
\* calls RecordClick, which begins with a GetURL of its own.
AfterHandlerGet(rec) ==
    [rec EXCEPT !.got = "ok", !.target = rec.url.original_url,
                !.inClick = TRUE, !.pc = "g_read"]

\* GetURL returning ret: to its caller, or into the rest of RecordClick, of
\* GetURLStats and GetAnalytics, or of Handler.GenerateQRCode.
GetDone(rec, ret) ==
    IF rec.op = "RedirectURL" /\ ~rec.inClick
    THEN IF ret = "ok" THEN AfterHandlerGet(rec)
         ELSE [rec EXCEPT !.got = ret, !.ret = ret, !.pc = "h_error"]
    ELSE IF rec.op \in {"RecordClick", "RedirectURL"} /\ RecordProceeds(ret)
    THEN [rec EXCEPT !.pc = "r_event", !.ret = ret]
    ELSE IF rec.op \in {"GetURLStats", "GetAnalytics"} /\ ret = "ok"
    THEN IF rec.op = "GetURLStats" /\ rec.stage = 0
         THEN [rec EXCEPT !.stage = 1, !.kept = rec.url, !.pc = "s_own"]
         ELSE [rec EXCEPT !.pc = "a_query"]
    ELSE IF rec.op = "GenerateQRCode"
    THEN [rec EXCEPT !.ret = ret, !.pc = "q_respond"]
    ELSE Return(rec, ret)

\* urlRepo.GetByShortCode, then the expiry and activity checks. The query
\* fails with one of faults, or goes through (Empty).
GetReadWith(p, faults) ==
    /\ call[p].pc = "g_read"
    /\ \E fault \in faults \cup {Empty} :
         LET url == GetByShortCode(call[p].shortCode)
             rec == [call[p] EXCEPT !.url = url, !.tRead = now, !.fault = fault,
                                    !.sawCache = cacheURL[call[p].shortCode],
                                    !.sawWrite = lastWrite[call[p].shortCode].kind]
         IN  Become(p, IF fault # Empty
                       THEN GetDone([rec EXCEPT !.url = NoURL],
                                    ClassifyReadError(ReadErrorText(fault)))
                       ELSE IF url = NoURL
                       THEN GetDone(rec, ClassifyReadError(ErrNoRowsText))
                       ELSE [rec EXCEPT !.pc = "g_cache", !.ret = GetURLOutcome(url, now)])
    /\ UNCHANGED <<now, urls, nextId, users, click_events, cacheURL, cacheClicks, started>>
    /\ UNCHANGED <<lastWrite, beside, mail, otp_verifications>>

\* The read with the store in good health.
GetRead(p) == GetReadWith(p, {})

\* The cache call of GetURL: DeleteURL for an expired or inactive link (its
\* error is dropped), SetURL otherwise (its error is logged); then the return.
GetCache(p) ==
    /\ call[p].pc = "g_cache"
    /\ \E ok \in BOOLEAN :
         LET rec == call[p]
         IN  IF rec.ret # "ok"
             THEN /\ CacheDeleteURL(rec.shortCode, ok)
                  /\ Become(p, GetDone([IOPlus(rec, "cacheDel") EXCEPT !.cacheOK = ok],
                                        CacheResult(ok, rec.ret)))
             ELSE /\ CacheSetURL(rec.shortCode, rec.url.original_url, ok)
                  /\ Become(p, GetDone([IOPlus(rec, "cacheSet") EXCEPT !.cacheOK = ok],
                                        CacheResult(ok, rec.ret)))
    /\ UNCHANGED <<now, urls, nextId, users, click_events, cacheClicks, started>>
    /\ UNCHANGED <<lastWrite, beside, mail, otp_verifications>>

(***************************************************************************)
(* urlService.UpdateURL                                                    *)
(***************************************************************************)
UpdateCallWith(p, codes, patches, owners) ==
    /\ Free(p)
    /\ \E code \in codes, req \in patches, user \in owners :
         LET v == UpdateValidate(req.OriginalURL, req.ExpiresAt, now)
             rec == [Idle EXCEPT !.op = "UpdateURL", !.shortCode = code, !.userID = user,
                                 !.rawURL = req.OriginalURL, !.reqURL = v.URL,
                                 !.reqActive = req.IsActive, !.reqExpires = req.ExpiresAt]
         IN  Become(p, IF v.err THEN Finish(rec, "VALIDATION_ERROR")
                       ELSE [rec EXCEPT !.pc = "u_own"])
    /\ started' = started + 1
    /\ UNCHANGED <<now, urls, nextId, users, click_events, cacheURL, cacheClicks>>
    /\ UNCHANGED <<lastWrite, beside, mail, otp_verifications>>

UpdateOwn(p) ==
    /\ call[p].pc = "u_own"
    /\ Become(p, IF ~CheckOwnership(call[p].shortCode, call[p].userID)
                 THEN Finish(call[p], "FORBIDDEN")
                 ELSE [call[p] EXCEPT !.pc = "u_read"])
    /\ UNCHANGED <<now, urls, nextId, users, click_events, cacheURL, cacheClicks, started>>
    /\ UNCHANGED <<lastWrite, beside, mail, otp_verifications>>

\* A patch whose is_active field is not applied.
ApplyPatch_DropActive(url, rec) ==
    [url EXCEPT
        !.original_url = IF rec.reqURL # Empty THEN rec.reqURL ELSE @,
        !.expires_at = IF rec.reqExpires # NoTime THEN rec.reqExpires ELSE @]

\* The fields of the request applied to the row that was read.
ApplyPatch(url, rec) ==
    [url EXCEPT
        !.original_url = IF rec.reqURL # Empty THEN rec.reqURL ELSE @,
        !.is_active = IF rec.reqActive # "nil" THEN rec.reqActive = "true" ELSE @,
        !.expires_at = IF rec.reqExpires # NoTime THEN rec.reqExpires ELSE @]

\* A statusChanged that looks at the active flag only.
StatusChanged_ActiveOnly(url, rec) ==
    rec.reqActive # "nil" /\ url.is_active # (rec.reqActive = "true")

\* statusChanged of UpdateURL.
StatusChanged(url, rec) ==
    \/ rec.reqActive # "nil" /\ url.is_active # (rec.reqActive = "true")
    \/ /\ rec.reqExpires # NoTime
       /\ \/ url.expires_at = NoTime
          \/ url.expires_at # rec.reqExpires

\* urlRepo.GetByShortCode and the in-memory update of the row.
UpdateRead(p) ==
    /\ call[p].pc = "u_read"
    /\ LET rec == call[p]
           url == GetByShortCode(rec.shortCode)
       IN  Become(p, IF url = NoURL THEN Finish(rec, "DATABASE_ERROR")
                     ELSE [rec EXCEPT !.url = ApplyPatch(url, rec),
                                      !.was = url,
                                      !.evict = StatusChanged(url, rec),
                                      !.pc = "u_write"])
    /\ UNCHANGED <<now, urls, nextId, users, click_events, cacheURL, cacheClicks, started>>
    /\ UNCHANGED <<lastWrite, beside, mail, otp_verifications>>

\* An UPDATE that writes back every column of the record in memory.
UpdateRow_WholeRow(r, url) == [url EXCEPT !.id = r.id, !.short_code = r.short_code]

\* The row r after UPDATE urls SET original_url, is_active, expires_at.
UpdateRow(r, url) ==
    [r EXCEPT !.original_url = url.original_url,
              !.is_active = url.is_active,
              !.expires_at = url.expires_at]

\* urlRepo.Update: UPDATE urls SET original_url, is_active, expires_at WHERE
\* short_code = $1 RETURNING id; then the choice between eviction and refresh.
UpdateWrite(p) ==
    /\ call[p].pc = "u_write"
    /\ LET rec == call[p]
           hit == {r \in urls : r.short_code = rec.shortCode}
           set(r) == UpdateRow(r, rec.url)
       IN  IF hit = {}
           THEN /\ Become(p, Finish(rec, "DATABASE_ERROR"))
                /\ UNCHANGED <<urls, lastWrite, beside, mail, otp_verifications>>
           ELSE /\ urls' = (urls \ hit) \cup {set(r) : r \in hit}
                /\ lastWrite' = [lastWrite EXCEPT ![rec.shortCode] =
                        [kind |-> IF rec.reqActive = "false" THEN "deactivate" ELSE "update",
                         by |-> p]]
                /\ UNCHANGED <<beside, mail, otp_verifications>>
                /\ LET updated == [rec.url EXCEPT !.id = (CHOOSE r \in hit : TRUE).id]
                   IN  Become(p, [rec EXCEPT
                           !.url = updated,
                           !.evict = rec.evict \/ ~updated.is_active \/ IsExpired(updated, now),
                           !.tCheck = now,
                           !.hit = CHOOSE r \in hit : TRUE,
                           !.pc = "u_cache"])
    /\ UNCHANGED <<now, nextId, users, click_events, cacheURL, cacheClicks, started>>

UpdateCache(p) ==
    /\ call[p].pc = "u_cache"
    /\ \E ok \in BOOLEAN :
         LET rec == call[p]
         IN  IF rec.evict
             THEN /\ CacheDeleteURL(rec.shortCode, ok)
                  /\ Become(p, Finish([IOPlus(rec, "cacheDel") EXCEPT !.cacheOK = ok],
                                       CacheResult(ok, "ok")))
             ELSE /\ CacheSetURL(rec.shortCode, rec.url.original_url, ok)
                  /\ Become(p, Finish([IOPlus(rec, "cacheSet") EXCEPT !.cacheOK = ok],
                                       CacheResult(ok, "ok")))
    /\ lastWrite' = IF lastWrite[call[p].shortCode] = [kind |-> "deactivate", by |-> p]
                    THEN [lastWrite EXCEPT ![call[p].shortCode].kind = "deactivated"]
                    ELSE lastWrite
    /\ UNCHANGED <<now, urls, nextId, users, click_events, cacheClicks, started, beside, mail, otp_verifications>>

(***************************************************************************)
(* urlService.DeleteURL                                                    *)
(***************************************************************************)
DeleteCallWith(p, codes, owners) ==
    /\ Free(p)
    /\ \E code \in codes, user \in owners :
         Become(p, [Idle EXCEPT !.op = "DeleteURL", !.shortCode = code,
                                !.userID = user, !.pc = "d_own"])
    /\ started' = started + 1
    /\ UNCHANGED <<now, urls, nextId, users, click_events, cacheURL, cacheClicks>>
    /\ UNCHANGED <<lastWrite, beside, mail, otp_verifications>>

DeleteOwn(p) ==
    /\ call[p].pc = "d_own"
    /\ Become(p, IF ~CheckOwnership(call[p].shortCode, call[p].userID)
                 THEN Finish(call[p], "FORBIDDEN")
                 ELSE [call[p] EXCEPT !.pc = "d_cache"])
    /\ UNCHANGED <<now, urls, nextId, users, click_events, cacheURL, cacheClicks, started>>
    /\ UNCHANGED <<lastWrite, beside, mail, otp_verifications>>

DeleteCache(p) ==
    /\ call[p].pc = "d_cache"
    /\ \E ok \in BOOLEAN :
         /\ CacheDeleteURL(call[p].shortCode, ok)
         /\ LET rec == [IOPlus(call[p], "cacheDel") EXCEPT !.cacheOK = ok]
            IN  Become(p, IF CacheResult(ok, "ok") = "ok"
                          THEN [rec EXCEPT !.pc = "d_delete"]
                          ELSE Finish(rec, CacheResult(ok, "ok")))
    /\ UNCHANGED <<now, urls, nextId, users, click_events, cacheClicks, started>>
    /\ UNCHANGED <<lastWrite, beside, mail, otp_verifications>>

\* decrement_user_link_count, once per deleted row.
Decrement(count, n) == IF count - n > 0 THEN count - n ELSE 0

\* A foreign key without ON DELETE CASCADE that lets the DELETE through.
Cascade_None(events, hit) == events

\* click_events.url_id REFERENCES urls(id) ON DELETE CASCADE.
Cascade(events, hit) == {e \in events : \A r \in hit : e.url_id # r.id}

\* urlRepo.DeleteByUser: the DELETE, its cascade to click_events and the
\* delete trigger on users.link_count.
DeleteRow(p) ==
    /\ call[p].pc = "d_delete"
    /\ LET rec == call[p]
           hit == {r \in urls : r.short_code = rec.shortCode /\ r.user_id = rec.userID}
       IN  IF hit = {}
           THEN /\ Become(p, Finish(rec, "DATABASE_ERROR"))
                /\ UNCHANGED <<urls, click_events, users, lastWrite, beside, mail, otp_verifications>>
           ELSE /\ urls' = urls \ hit
                /\ lastWrite' = [lastWrite EXCEPT ![rec.shortCode] = [kind |-> "delete", by |-> p]]
                /\ UNCHANGED <<beside, mail, otp_verifications>>
                /\ click_events' = Cascade(click_events, hit)
                /\ users' = [users EXCEPT ![rec.userID].link_count =
                                              Decrement(@, Cardinality(hit))]
                /\ Become(p, Finish(rec, "ok"))
    /\ UNCHANGED <<now, nextId, cacheURL, cacheClicks, started>>

(***************************************************************************)
(* urlService.GetAllURLs                                                   *)
(***************************************************************************)
DefaultLimit == 10

\* A listing without the WHERE clause.
OwnedBy_Everyone(userID) == urls

\* ... FROM urls WHERE user_id = $1.
OwnedBy(userID) == {r \in urls : r.user_id = userID}

\* ORDER BY created_at DESC: the orders the database may deliver the rows in
\* (rows of equal created_at come in any order).
Listings(rows) ==
    { s \in [1..Cardinality(rows) -> rows] :
        /\ \A i, j \in 1..Cardinality(rows) : i # j => s[i] # s[j]
        /\ \A i, j \in 1..Cardinality(rows) : i < j => s[i].created_at >= s[j].created_at }

\* LIMIT $2 OFFSET $3.
Page(s, limit, offset) ==
    SubSeq(s, offset + 1, IF offset + limit < Len(s) THEN offset + limit ELSE Len(s))

\* Entry: the defaults for limit and offset.
ListCallWith(p, owners, limits, offsets) ==
    /\ Free(p)
    /\ \E user \in owners, limit \in limits, offset \in offsets :
         Become(p, [Idle EXCEPT !.op = "GetAllURLs", !.userID = user,
                                !.limit = IF limit <= 0 THEN DefaultLimit ELSE limit,
                                !.offset = IF offset < 0 THEN 0 ELSE offset,
                                !.pc = "l_count"])
    /\ started' = started + 1
    /\ UNCHANGED <<now, urls, nextId, users, click_events, cacheURL, cacheClicks>>
    /\ UNCHANGED <<lastWrite, beside, mail, otp_verifications>>

\* urlRepo.GetAllByUser, first statement: SELECT COUNT(*).
ListCount(p) ==
    /\ call[p].pc = "l_count"
    /\ Become(p, [call[p] EXCEPT !.total = Cardinality(OwnedBy(call[p].userID)),
                                 !.pc = "l_rows"])
    /\ UNCHANGED <<now, urls, nextId, users, click_events, cacheURL, cacheClicks, started>>
    /\ UNCHANGED <<lastWrite, beside, mail, otp_verifications>>

\* urlRepo.GetAllByUser, second statement: the page of rows; then the return.
ListRows(p) ==
    /\ call[p].pc = "l_rows"
    /\ \E s \in Listings(OwnedBy(call[p].userID)) :
         Become(p, Finish([call[p] EXCEPT !.rows = Page(s, call[p].limit, call[p].offset)],
                          "ok"))
    /\ UNCHANGED <<now, urls, nextId, users, click_events, cacheURL, cacheClicks, started>>
    /\ UNCHANGED <<lastWrite, beside, mail, otp_verifications>>

(***************************************************************************)
(* urlService.RecordClick                                                  *)
(***************************************************************************)
RecordCallWith(p, codes) ==
    /\ Free(p)
    /\ \E code \in codes :
         Become(p, [Idle EXCEPT !.op = "RecordClick", !.shortCode = code, !.pc = "g_read"])
    /\ started' = started + 1
    /\ UNCHANGED <<now, urls, nextId, users, click_events, cacheURL, cacheClicks>>
    /\ UNCHANGED <<lastWrite, beside, mail, otp_verifications>>

NextClickId == 1 + Cardinality(click_events)

\* urlRepo.CreateClickEvent: the INSERT, refused by the foreign key when the
\* url row is gone.
RecordEvent(p) ==
    /\ call[p].pc = "r_event"
    /\ LET rec == call[p]
       IN  IF ~\E r \in urls : r.id = rec.url.id
           THEN /\ Become(p, Return(rec, "DATABASE_ERROR"))
                /\ UNCHANGED click_events
           ELSE /\ click_events' = click_events \cup
                       {[id |-> NextClickId, url_id |-> rec.url.id]}
                /\ Become(p, [rec EXCEPT !.pc = "r_incr"])
    /\ UNCHANGED <<now, urls, nextId, users, cacheURL, cacheClicks, started>>
    /\ UNCHANGED <<lastWrite, beside, mail, otp_verifications>>

\* urlRepo.IncrementClickCount: UPDATE urls SET click_count = click_count + 1.
RecordIncrement(p) ==
    /\ call[p].pc = "r_incr"
    /\ urls' = {IF r.short_code = call[p].shortCode
                THEN [r EXCEPT !.click_count = @ + 1] ELSE r : r \in urls}
    /\ Become(p, [call[p] EXCEPT !.pc = "r_cache", !.clicked = TRUE])
    /\ UNCHANGED <<now, nextId, users, click_events, cacheURL, cacheClicks, started>>
    /\ UNCHANGED <<lastWrite, beside, mail, otp_verifications>>

\* cacheRepo.IncrementClickCount, whose failure is logged only.
RecordCache(p) ==
    /\ call[p].pc = "r_cache"
    /\ \E ok \in BOOLEAN :
         /\ cacheClicks' = IF ok THEN [cacheClicks EXCEPT ![call[p].shortCode] = @ + 1]
                           ELSE cacheClicks
         /\ Become(p, Return([call[p] EXCEPT !.cacheOK = ok], CacheResult(ok, "ok")))
    /\ UNCHANGED <<now, urls, nextId, users, click_events, cacheURL, started>>
    /\ UNCHANGED <<lastWrite, beside, mail, otp_verifications>>

(***************************************************************************)
(* The HTTP layer: the status and code a handler reports for a result.     *)
(***************************************************************************)
\* AppError.StatusCode as the constructors of package errors set it.
StatusCode(code) ==
    CASE code = "ok" -> 200
      [] code = "VALIDATION_ERROR" -> 400
      [] code = "FORBIDDEN" -> 403
      [] code = "NOT_FOUND" -> 404
      [] code = "ALREADY_EXISTS" -> 409
      [] code \in {"URL_INACTIVE", "URL_EXPIRED"} -> 410
      [] OTHER -> 500

\* Handler.handleError: the JSON response for an AppError.
handleError(code) == [status |-> StatusCode(code), code |-> code]

(***************************************************************************)
(* urlService.GetURLStats and urlService.GetAnalytics. GetURLStats checks  *)
(* ownership, calls GetURL, then GetAnalytics (stage 1), then reads the    *)
(* recent clicks of the record its own GetURL returned (kept).             *)
(***************************************************************************)
RecentLimit == 10

ScopedCallWith(p, ops, codes, owners) ==
    /\ Free(p)
    /\ \E op \in ops, code \in codes, user \in owners :
         Become(p, [Idle EXCEPT !.op = op, !.shortCode = code, !.userID = user,
                                !.pc = "s_own"])
    /\ started' = started + 1
    /\ UNCHANGED <<now, urls, nextId, users, click_events, cacheURL, cacheClicks>>
    /\ UNCHANGED <<lastWrite, beside, mail, otp_verifications>>

\* urlRepo.CheckOwnership, in GetURLStats and in GetAnalytics.
ScopedOwn(p) ==
    /\ call[p].pc = "s_own"
    /\ Become(p, IF ~CheckOwnership(call[p].shortCode, call[p].userID)
                 THEN Finish(call[p], "FORBIDDEN")
                 ELSE [call[p] EXCEPT !.pc = "g_read"])
    /\ UNCHANGED <<now, urls, nextId, users, click_events, cacheURL, cacheClicks, started>>
    /\ UNCHANGED <<lastWrite, beside, mail, otp_verifications>>

\* urlRepo.GetAnalyticsByUser: the ownership count on the id, then the total
\* of the link's click events.
AnalyticsQuery(p) ==
    /\ call[p].pc = "a_query"
    /\ LET rec == call[p]
       IN  Become(p, IF ~\E r \in urls : r.id = rec.url.id /\ r.user_id = rec.userID
                     THEN Finish(rec, "DATABASE_ERROR")
                     ELSE LET done == [rec EXCEPT !.total =
                                  Cardinality({e \in click_events : e.url_id = rec.url.id})]
                          IN  IF rec.op = "GetAnalytics" THEN Finish(done, "ok")
                              ELSE [done EXCEPT !.pc = "t_clicks"])
    /\ UNCHANGED <<now, urls, nextId, users, click_events, cacheURL, cacheClicks, started>>
    /\ UNCHANGED <<lastWrite, beside, mail, otp_verifications>>

\* urlRepo.GetClickEvents(url.ID, 10); then the response of GetURLStats.
StatsClicks(p) ==
    /\ call[p].pc = "t_clicks"
    /\ LET rec == call[p]
           events == {e \in click_events : e.url_id = rec.kept.id}
       IN  \E some \in SUBSET events :
              /\ Cardinality(some) =
                    IF Cardinality(events) < RecentLimit THEN Cardinality(events)
                    ELSE RecentLimit
              /\ Become(p, Finish([rec EXCEPT !.recent = some], "ok"))
    /\ UNCHANGED <<now, urls, nextId, users, click_events, cacheURL, cacheClicks, started>>
    /\ UNCHANGED <<lastWrite, beside, mail, otp_verifications>>

\* What the caller of a finished owner-scoped request receives: the response
\* of GenerateQRCode, or the JSON response of the API handler to what the
\* service returned.
Answer(rec) ==
    IF rec.op = "GenerateQRCode" THEN [status |-> rec.resp.status, code |-> rec.resp.code]
    ELSE IF rec.ret = "ok" THEN [status |-> 200, code |-> "none"]
    ELSE handleError(rec.ret)

(***************************************************************************)
(* Handler.GenerateQRCode                                                  *)
(***************************************************************************)
QRCallWith(p, codes, owners) ==
    /\ Free(p)
    /\ \E code \in codes, user \in owners :
         Become(p, [Idle EXCEPT !.op = "GenerateQRCode", !.shortCode = code,
                                !.userID = user, !.pc = "g_read"])
    /\ started' = started + 1
    /\ UNCHANGED <<now, urls, nextId, users, click_events, cacheURL, cacheClicks>>
    /\ UNCHANGED <<lastWrite, beside, mail, otp_verifications>>

\* After GetURL: its error through handleError, "Access denied" for a record
\* of another user, the image otherwise.
QRRespond(p) ==
    /\ call[p].pc = "q_respond"
    /\ LET rec == call[p]
           resp == IF rec.ret # "ok"
                   THEN [status |-> handleError(rec.ret).status, page |-> "none",
                         target |-> Empty, code |-> handleError(rec.ret).code]
                   ELSE IF rec.url.user_id # rec.userID
                   THEN [status |-> 403, page |-> "none", target |-> Empty,
                         code |-> "Access denied"]
                   ELSE [status |-> 200, page |-> "none", target |-> rec.shortCode,
                         code |-> "image/png"]
       IN  Become(p, Finish([rec EXCEPT !.resp = resp], rec.ret))
    /\ UNCHANGED <<now, urls, nextId, users, click_events, cacheURL, cacheClicks, started>>
    /\ UNCHANGED <<lastWrite, beside, mail, otp_verifications>>

(***************************************************************************)
(* The operations that rewrite the user row: authService.UpdateUser,       *)
(* authService.ChangePassword and the email verification of                *)
(* otpService.VerifyOTP. Each reads the row, changes fields of its copy    *)
(* and hands the copy to userRepository.Update.                            *)
(***************************************************************************)
UserOps == {"UpdateUser", "ChangePassword", "VerifyOTP"}

UserCallWith(p, ops, owners) ==
    /\ Free(p)
    /\ \E op \in ops, user \in owners :
         Become(p, [Idle EXCEPT !.op = op, !.userID = user, !.pc = "p_read"])
    /\ started' = started + 1
    /\ UNCHANGED <<now, urls, nextId, users, click_events, cacheURL, cacheClicks>>
    /\ UNCHANGED <<lastWrite, beside, mail, otp_verifications>>

\* userRepo.GetByID (GetByEmail in VerifyOTP): the copy of the row.
UserRead(p) ==
    /\ call[p].pc = "p_read"
    /\ Become(p, [call[p] EXCEPT !.user = users[call[p].userID], !.pc = "p_write"])
    /\ UNCHANGED <<now, urls, nextId, users, click_events, cacheURL, cacheClicks, started>>
    /\ UNCHANGED <<lastWrite, beside, mail, otp_verifications>>

\* userRepository.Update: UPDATE users SET ..., link_count = $8,
\* link_limit = $9 ... WHERE id = $1, with the values of the copy.
UserWrite(p) ==
    /\ call[p].pc = "p_write"
    /\ users' = [users EXCEPT ![call[p].userID] =
                    [link_count |-> call[p].user.link_count,
                     link_limit |-> call[p].user.link_limit]]
    /\ Become(p, Finish(call[p], "ok"))
    /\ UNCHANGED <<now, urls, nextId, click_events, cacheURL, cacheClicks, started>>
    /\ UNCHANGED <<lastWrite, beside, mail, otp_verifications>>

(***************************************************************************)
(* rabbitMQService: PublishEmail, PublishDelayedEmail, ConsumeEmails, and  *)
(* the dead-lettering of email_delay_queue into email_queue.               *)
(***************************************************************************)
MaxMail == 2

DefaultMaxRetries == 3

\* PublishEmail, called by PublishOTPEmail and PublishWelcomeEmail with
\* Retry 0 and MaxRetries 3; a MaxRetries of 0 is replaced by the default.
PublishEmail ==
    /\ Len(handled) < MaxMail
    /\ \E max \in {0, DefaultMaxRetries} :
         LET message == [id |-> Len(handled) + 1, Retry |-> 0,
                         MaxRetries |-> IF max = 0 THEN DefaultMaxRetries ELSE max]
         IN  /\ email_queue' = Append(email_queue, message)
             /\ handled' = Append(handled, [times |-> 0, MaxRetries |-> message.MaxRetries])
    /\ UNCHANGED <<now, call, started, links, otp_verifications>>
    /\ UNCHANGED <<email_delay_queue, delivery>>

\* ConsumeEmails: the next delivery (prefetch 1) and the call of the handler,
\* which sends the mail or fails.
ConsumeHandle ==
    /\ delivery.pc = "wait" /\ email_queue # <<>>
    /\ \E sent \in BOOLEAN :
         LET msg == Head(email_queue)
         IN  /\ email_queue' = Tail(email_queue)
             /\ handled' = [handled EXCEPT ![msg.id].times = @ + 1]
             /\ delivery' = [msg |-> msg, pc |-> "settle", failed |-> ~sent]
    /\ UNCHANGED <<now, call, started, links, otp_verifications>>
    /\ UNCHANGED email_delay_queue

\* A consumer that gives up one failure later.
MaxRetriesReached_Late(msg) == msg.Retry > msg.MaxRetries

\* The test of ConsumeEmails after emailMsg.Retry++.
MaxRetriesReached(msg) == msg.Retry >= msg.MaxRetries

\* ConsumeEmails after the handler: Ack on success; on failure Retry++, then
\* Nack without requeue at MaxRetries, else PublishDelayedEmail (which may
\* fail, and is logged) and Ack.
ConsumeSettle ==
    /\ delivery.pc = "settle"
    /\ LET retried == [delivery.msg EXCEPT !.Retry = @ + 1]
       IN  IF delivery.failed /\ ~MaxRetriesReached(retried)
           THEN \E published \in BOOLEAN :
                   email_delay_queue' = IF published THEN Append(email_delay_queue, retried)
                                        ELSE email_delay_queue
           ELSE UNCHANGED email_delay_queue
    /\ delivery' = [delivery EXCEPT !.pc = "wait"]
    /\ UNCHANGED <<now, call, started, links, otp_verifications>>
    /\ UNCHANGED <<email_queue, handled>>

\* email_delay_queue: the message at the head reaches its TTL and is
\* dead-lettered to email_queue.
DelayExpire ==
    /\ email_delay_queue # <<>>
    /\ email_queue' = Append(email_queue, Head(email_delay_queue))
    /\ email_delay_queue' = Tail(email_delay_queue)
    /\ UNCHANGED <<now, call, started, links, otp_verifications>>
    /\ UNCHANGED <<delivery, handled>>

(***************************************************************************)
(* otpService.GenerateOTP and otpService.VerifyOTP over otp_verifications. *)
(* The email of a request is the email of the user it names.               *)
(***************************************************************************)
\* The lifetime of an OTP (10 minutes), in ticks of the clock.
OTPLifetime == 0

\* The ids of the rows in the table.
LiveOTPs == {i \in DOMAIN otp_verifications : ~otp_verifications[i].deleted}

\* UNIQUE(user_id, purpose, is_verified): a row with these values exists
\* beside row id.
OTPUniqueViolation(id, user, purpose, verified) ==
    \E i \in LiveOTPs \ {id} :
       /\ otp_verifications[i].user_id = user
       /\ otp_verifications[i].purpose = purpose
       /\ otp_verifications[i].is_verified = verified

\* OTPVerification.CanBeVerified at time t.
CanBeVerified(otp, t) == ~(t > otp.expires_at) /\ ~otp.is_verified

\* GenerateOTP: the code drawn and the row built.
GenerateCallWith(p, owners, purposes, codes) ==
    /\ Free(p)
    /\ \E user \in owners, purpose \in purposes, code \in codes :
         Become(p, [Idle EXCEPT !.op = "GenerateOTP", !.userID = user,
                                !.purpose = purpose, !.otpCode = code,
                                !.tRead = now, !.pc = "o_delete"])
    /\ started' = started + 1
    /\ UNCHANGED <<now, links, mail, otp_verifications>>

\* otpRepository.Create: DELETE ... WHERE user_id = $1 AND purpose = $2 AND
\* is_verified = FALSE.
GenerateDelete(p) ==
    /\ call[p].pc = "o_delete"
    /\ otp_verifications' =
         [i \in DOMAIN otp_verifications |->
            IF /\ otp_verifications[i].user_id = call[p].userID
               /\ otp_verifications[i].purpose = call[p].purpose
               /\ ~otp_verifications[i].is_verified
            THEN [otp_verifications[i] EXCEPT !.deleted = TRUE]
            ELSE otp_verifications[i]]
    /\ Become(p, [call[p] EXCEPT !.pc = "o_insert"])
    /\ UNCHANGED <<now, started, links, mail>>

\* otpRepository.Create: the INSERT, refused by the unique constraint.
GenerateInsert(p) ==
    /\ call[p].pc = "o_insert"
    /\ LET rec == call[p]
           row == [id |-> Len(otp_verifications) + 1, user_id |-> rec.userID,
                   otp_code |-> rec.otpCode, purpose |-> rec.purpose,
                   is_verified |-> FALSE, expires_at |-> rec.tRead + OTPLifetime,
                   created_at |-> rec.tRead, deleted |-> FALSE]
       IN  IF OTPUniqueViolation(row.id, rec.userID, rec.purpose, FALSE)
           THEN /\ Become(p, Finish(rec, "DATABASE_ERROR"))
                /\ UNCHANGED otp_verifications
           ELSE /\ otp_verifications' = Append(otp_verifications, row)
                /\ Become(p, Finish([rec EXCEPT !.otp = row], "ok"))
    /\ UNCHANGED <<now, started, links, mail>>

\* VerifyOTP: entry, with a request that passes req.Validate().
VerifyCallWith(p, owners, purposes, codes) ==
    /\ Free(p)
    /\ \E user \in owners, purpose \in purposes, code \in codes :
         Become(p, [Idle EXCEPT !.op = "VerifyOTP", !.userID = user,
                                !.purpose = purpose, !.otpCode = code,
                                !.pc = "v_read"])
    /\ started' = started + 1
    /\ UNCHANGED <<now, links, mail, otp_verifications>>

\* otpRepo.GetByEmailAndPurpose (the latest unverified row), CanBeVerified
\* and the comparison of the codes.
VerifyRead(p) ==
    /\ call[p].pc = "v_read"
    /\ LET rec == [call[p] EXCEPT !.tRead = now]
           found == {i \in LiveOTPs : /\ otp_verifications[i].user_id = rec.userID
                                      /\ otp_verifications[i].purpose = rec.purpose
                                      /\ ~otp_verifications[i].is_verified}
           latest == {i \in found : \A j \in found :
                         otp_verifications[j].created_at <= otp_verifications[i].created_at}
       IN  IF found = {} THEN Become(p, Finish(rec, "ok"))
           ELSE \E i \in latest :
                   LET otp == otp_verifications[i]
                   IN  Become(p, IF ~CanBeVerified(otp, now) \/ otp.otp_code # rec.otpCode
                                 THEN Finish([rec EXCEPT !.otp = otp], "ok")
                                 ELSE [rec EXCEPT !.otp = otp, !.pc = "v_update"])
    /\ UNCHANGED <<now, started, links, mail, otp_verifications>>

\* otpRepo.Update: UPDATE ... SET is_verified = TRUE WHERE id = $3, failing
\* on the unique constraint or when no row is affected; then the response,
\* after the user row has been rewritten for an email verification.
VerifyUpdate(p) ==
    /\ call[p].pc = "v_update"
    /\ LET rec == call[p]
           id == rec.otp.id
       IN  IF \/ id \notin LiveOTPs
              \/ OTPUniqueViolation(id, otp_verifications[id].user_id,
                                    otp_verifications[id].purpose, TRUE)
           THEN /\ Become(p, Finish(rec, "DATABASE_ERROR"))
                /\ UNCHANGED otp_verifications
           ELSE /\ otp_verifications' = [otp_verifications EXCEPT ![id].is_verified = TRUE]
                /\ Become(p, IF rec.purpose = "email_verification"
                             THEN [rec EXCEPT !.isVerified = TRUE, !.pc = "p_read"]
                             ELSE Finish([rec EXCEPT !.isVerified = TRUE], "ok"))
    /\ UNCHANGED <<now, started, links, mail>>

(***************************************************************************)
(* Handler.RedirectURL (GET /:shortCode)                                   *)
(***************************************************************************)
RedirectCallWith(p, codes) ==
    /\ Free(p)
    /\ \E code \in codes :
         Become(p, [Idle EXCEPT !.op = "RedirectURL", !.shortCode = code, !.pc = "g_read"])
    /\ started' = started + 1
    /\ UNCHANGED <<now, urls, nextId, users, click_events, cacheURL, cacheClicks>>
    /\ UNCHANGED <<lastWrite, beside, mail, otp_verifications>>

ApiPrefix == <<"/","a","p","i","/">>
HealthPrefix == <<"/","h","e","a","l","t","h">>

\* The frontend error page of an error code.
ErrorPage(err) ==
    CASE err = "URL_INACTIVE" -> "/error/inactive"
      [] err = "URL_EXPIRED" -> "/error/expired"
      [] err = "NOT_FOUND" -> "/error/not-found"
      [] OTHER -> "/error/server-error"

\* Handler.ErrorPageHandler for the request path /code: a redirect to the
\* error page, or the JSON error of handleError for a path taken for an API
\* or health path.
ErrorPageHandler(code, err) ==
    LET path == <<"/">> \o code
        isShortURL == ~HasPrefix(path, ApiPrefix) /\ ~HasPrefix(path, HealthPrefix)
    IN  IF ~isShortURL
        THEN [status |-> handleError(err).status, page |-> "none", target |-> Empty,
              code |-> handleError(err).code]
        ELSE [status |-> 302, page |-> ErrorPage(err), target |-> Empty, code |-> "none"]

\* h.ErrorPageHandler(c, err) after the handler's GetURL failed.
RedirectError(p) ==
    /\ call[p].pc = "h_error"
    /\ Become(p, [call[p] EXCEPT !.resp = ErrorPageHandler(call[p].shortCode, call[p].ret),
                                 !.pc = "done"])
    /\ UNCHANGED <<now, urls, nextId, users, click_events, cacheURL, cacheClicks, started>>
    /\ UNCHANGED <<lastWrite, beside, mail, otp_verifications>>

\* c.Redirect(http.StatusMovedPermanently, url.OriginalURL) after RecordClick
\* returned, whatever it returned.
RedirectRespond(p) ==
    /\ call[p].pc = "h_redirect"
    /\ Become(p, [call[p] EXCEPT !.resp = [status |-> 301, page |-> "none",
                                           target |-> call[p].target, code |-> "none"],
                                 !.pc = "done"])
    /\ UNCHANGED <<now, urls, nextId, users, click_events, cacheURL, cacheClicks, started>>
    /\ UNCHANGED <<lastWrite, beside, mail, otp_verifications>>

Next ==
    \/ Tick
    \/ \E p \in Procs :
         \/ CreateCallWith(p, RawTargets, CustomCodes, ExpiryInputs, Users)
         \/ CreateGetUser(p) \/ CreateGenerate(p) \/ CreateExists(p)
         \/ CreateInsert(p) \/ CreateCache(p)
         \/ GetCallWith(p, Codes \cup {Empty})
         \/ GetRead(p) \/ GetCache(p)
         \/ UpdateCallWith(p, Codes, Patches, Users)
         \/ UpdateOwn(p) \/ UpdateRead(p) \/ UpdateWrite(p) \/ UpdateCache(p)
         \/ DeleteCallWith(p, Codes, Users)
         \/ DeleteOwn(p) \/ DeleteCache(p) \/ DeleteRow(p)
         \/ RecordCallWith(p, Codes)
         \/ RecordEvent(p) \/ RecordIncrement(p) \/ RecordCache(p)
         \/ RedirectCallWith(p, Codes)
         \/ RedirectError(p) \/ RedirectRespond(p)
         \/ ListCallWith(p, Users, {0, 1}, {0 - 1, 1})
         \/ ListCount(p) \/ ListRows(p)
         \/ ScopedCallWith(p, {"GetURLStats", "GetAnalytics"}, Codes, Users)
         \/ ScopedOwn(p) \/ AnalyticsQuery(p) \/ StatsClicks(p)
         \/ QRCallWith(p, Codes, Users)
         \/ QRRespond(p)
         \/ UserCallWith(p, UserOps, Users)
         \/ UserRead(p) \/ UserWrite(p)
         \/ GenerateCallWith(p, Users, {"email_verification", "password_reset"},
                             {"111111", "222222"})
         \/ GenerateDelete(p) \/ GenerateInsert(p)
         \/ VerifyCallWith(p, Users, {"email_verification", "password_reset"},
                           {"111111", "222222"})
         \/ VerifyRead(p) \/ VerifyUpdate(p)
    \/ PublishEmail \/ ConsumeHandle \/ ConsumeSettle \/ DelayExpire

Spec == Init /\ [][Next]_vars

(***************************************************************************)
(* The allocation workload: concurrent creates (custom and generated       *)
(* codes, valid and invalid requests, both owners) and deletes.            *)
(***************************************************************************)
NextCreate ==
    \E p \in Procs :
       \/ CreateCallWith(p, {TargetA}, CustomCodes, {NoTime}, Users)
       \/ CreateGetUser(p) \/ CreateGenerate(p) \/ CreateExists(p)
       \/ CreateInsert(p) \/ CreateCache(p)
       \/ DeleteCallWith(p, {CodeA}, Users)
       \/ DeleteOwn(p) \/ DeleteCache(p) \/ DeleteRow(p)

SpecCreate == Init /\ [][NextCreate]_vars

(***************************************************************************)
(* The resolution workload: one code, created with or without an expiry,   *)
(* read, clicked, patched and deleted while the clock advances.            *)
(***************************************************************************)
NextResolve ==
    \/ Tick
    \/ \E p \in Procs :
         \/ CreateCallWith(p, {TargetA}, {CodeA}, ExpiryInputs, {1})
         \/ CreateGetUser(p) \/ CreateExists(p) \/ CreateInsert(p) \/ CreateCache(p)
         \/ GetCallWith(p, {CodeA})
         \/ GetRead(p) \/ GetCache(p)
         \/ UpdateCallWith(p, {CodeA}, Patches, {1})
         \/ UpdateOwn(p) \/ UpdateRead(p) \/ UpdateWrite(p) \/ UpdateCache(p)
         \/ DeleteCallWith(p, {CodeA}, {1})
         \/ DeleteOwn(p) \/ DeleteCache(p) \/ DeleteRow(p)
         \/ RecordCallWith(p, {CodeA})
         \/ RecordEvent(p) \/ RecordIncrement(p) \/ RecordCache(p)

SpecResolve == Init /\ [][NextResolve]_vars

(***************************************************************************)
(* The ownership workload: one link of owner 1, updated and deleted by     *)
(* both users.                                                             *)
(***************************************************************************)
OwnerPatches == { Patch(Empty, "false", NoTime), Patch(TargetB, "nil", NoTime) }

NextOwner ==
    \E p \in Procs :
       \/ CreateCallWith(p, {TargetA}, {CodeA}, {NoTime}, {1})
       \/ CreateGetUser(p) \/ CreateExists(p) \/ CreateInsert(p) \/ CreateCache(p)
       \/ UpdateCallWith(p, {CodeA}, OwnerPatches, Users)
       \/ UpdateOwn(p) \/ UpdateRead(p) \/ UpdateWrite(p) \/ UpdateCache(p)
       \/ DeleteCallWith(p, {CodeA}, Users)
       \/ DeleteOwn(p) \/ DeleteCache(p) \/ DeleteRow(p)

SpecOwner == Init /\ [][NextOwner]_vars

(***************************************************************************)
(* The redirect workload: public redirects of one link, which is created   *)
(* with or without an expiry, deactivated and deleted meanwhile, and of a  *)
(* code nobody holds.                                                      *)
(***************************************************************************)
NextRedirect ==
    \/ Tick
    \/ \E p \in Procs :
         \/ CreateCallWith(p, {TargetA}, {CodeA}, ExpiryInputs, {1})
         \/ CreateGetUser(p) \/ CreateExists(p) \/ CreateInsert(p) \/ CreateCache(p)
         \/ UpdateCallWith(p, {CodeA}, {Patch(Empty, "false", NoTime)}, {1})
         \/ UpdateOwn(p) \/ UpdateRead(p) \/ UpdateWrite(p) \/ UpdateCache(p)
         \/ DeleteCallWith(p, {CodeA}, {1})
         \/ DeleteOwn(p) \/ DeleteCache(p) \/ DeleteRow(p)
         \/ RedirectCallWith(p, {CodeA, CodeH})
         \/ GetRead(p) \/ GetCache(p)
         \/ RecordEvent(p) \/ RecordIncrement(p) \/ RecordCache(p)
         \/ RedirectError(p) \/ RedirectRespond(p)

SpecRedirect == Init /\ [][NextRedirect]_vars

(***************************************************************************)
(* The validation workload: create and update requests of owner 1 with     *)
(* well-formed and malformed targets, custom codes and expiries, while the *)
(* clock advances.                                                         *)
(***************************************************************************)
TargetSpace == HttpsPrefix \o <<"a"," ","b">>

ValidateTargets == { TargetA, Empty, HttpPrefix, TargetSpace }

ValidateCustoms ==
    { CodeA, <<"a","b">>, [k \in 1..(MaxCustomLen + 1) |-> "a"], <<"a","_","b">> }

ValidatePatches ==
    { Patch(TargetB, "nil", NoTime), Patch(HttpPrefix, "nil", NoTime),
      Patch(TargetSpace, "false", NoTime) }
    \cup { Patch(Empty, "nil", e) : e \in Times }

NextValidate ==
    \/ Tick
    \/ \E p \in Procs :
         \/ CreateCallWith(p, ValidateTargets, ValidateCustoms, ExpiryInputs, {1})
         \/ CreateGetUser(p) \/ CreateExists(p) \/ CreateInsert(p) \/ CreateCache(p)
         \/ UpdateCallWith(p, {CodeA}, ValidatePatches, {1})
         \/ UpdateOwn(p) \/ UpdateRead(p) \/ UpdateWrite(p) \/ UpdateCache(p)

SpecValidate == Init /\ [][NextValidate]_vars

(***************************************************************************)
(* URL.NormalizeURL applied over and over to a URL value: each goroutine   *)
(* holds one value, drawn from padded and unpadded strings with and        *)
(* without a scheme, and normalises it in place.                           *)
(***************************************************************************)
MaxPasses == 2

ExampleCom == <<"e","x","a","m","p","l","e",".","c","o","m">>

Pads == { Empty, <<" ">> }

NormalizeInputs ==
    { l \o pre \o body \o r :
        l \in Pads, r \in Pads,
        pre \in { Empty, HttpPrefix, HttpsPrefix },
        body \in { Empty, ExampleCom, <<"a"," ","b">> } }

InitNormalize ==
    /\ now = 0
    /\ urls = {}
    /\ nextId = 1
    /\ users = [u \in Users |-> [link_count |-> 0, link_limit |-> UserLinkLimit]]
    /\ click_events = {}
    /\ cacheURL = [c \in Codes |-> NoEntry]
    /\ cacheClicks = [c \in Codes |-> 0]
    /\ call \in [Procs -> { [Idle EXCEPT !.op = "NormalizeURL", !.pc = "n_norm",
                                         !.rawURL = s, !.reqURL = s] :
                            s \in NormalizeInputs }]
    /\ started = 0
    /\ beside = [p \in Procs |-> FALSE]
    /\ MailIdle
    /\ otp_verifications = <<>>
    /\ lastWrite = [c \in Codes |-> [kind |-> "none", by |-> 0]]

\* One call of u.NormalizeURL(); first keeps what the first call left.
Normalize(p) ==
    /\ call[p].pc = "n_norm"
    /\ LET rec == call[p]
           u == NormalizeURL(rec.reqURL)
       IN  Become(p, [rec EXCEPT !.reqURL = u,
                                 !.passes = @ + 1,
                                 !.first = IF rec.passes = 0 THEN u ELSE @,
                                 !.pc = IF rec.passes + 1 >= MaxPasses
                                        THEN "done" ELSE "n_norm"])
    /\ UNCHANGED <<now, urls, nextId, users, click_events, cacheURL, cacheClicks, started>>
    /\ UNCHANGED <<lastWrite, beside, mail, otp_verifications>>

NextNormalize == \E p \in Procs : Normalize(p)

SpecNormalize == InitNormalize /\ [][NextNormalize]_vars

(***************************************************************************)
(* urlService.generateShortCode on its own: goroutine 1 holds the eight    *)
(* bytes that crypto/rand delivers and turns them into a code. The draws   *)
(* cover every byte value at every position.                               *)
(***************************************************************************)
ByteValues == 0..255

GenerateDraws ==
    { [k \in 1..length |-> (b + 37 * k) % 256] : b \in ByteValues }
    \cup { [k \in 1..length |-> b] : b \in {0, 7, 8, 61, 62, 255} }

InitGenerate ==
    /\ now = 0
    /\ urls = {}
    /\ nextId = 1
    /\ users = [u \in Users |-> [link_count |-> 0, link_limit |-> UserLinkLimit]]
    /\ click_events = {}
    /\ cacheURL = [c \in Codes |-> NoEntry]
    /\ cacheClicks = [c \in Codes |-> 0]
    /\ call \in { [p \in Procs |-> IF p = 1
                                   THEN [Idle EXCEPT !.op = "generateShortCode",
                                                     !.pc = "s_gen", !.bytes = d]
                                   ELSE Idle] : d \in GenerateDraws }
    /\ started = 0
    /\ beside = [p \in Procs |-> FALSE]
    /\ MailIdle
    /\ otp_verifications = <<>>
    /\ lastWrite = [c \in Codes |-> [kind |-> "none", by |-> 0]]

\* s.generateShortCode().
Generate(p) ==
    /\ call[p].pc = "s_gen"
    /\ Become(p, Finish([call[p] EXCEPT !.shortCode = generateShortCode(call[p].bytes)], "ok"))
    /\ UNCHANGED <<now, urls, nextId, users, click_events, cacheURL, cacheClicks, started>>
    /\ UNCHANGED <<lastWrite, beside, mail, otp_verifications>>

NextGenerate == \E p \in Procs : Generate(p)

SpecGenerate == InitGenerate /\ [][NextGenerate]_vars

(***************************************************************************)
(* The listing workload: both owners create and delete links and list      *)
(* their own, page by page, while the clock advances.                      *)
(***************************************************************************)
NextList ==
    \/ Tick
    \/ \E p \in Procs :
         \/ CreateCallWith(p, {TargetA}, {CodeA, CodeB}, {NoTime}, Users)
         \/ CreateGetUser(p) \/ CreateExists(p) \/ CreateInsert(p) \/ CreateCache(p)
         \/ DeleteCallWith(p, {CodeA}, Users)
         \/ DeleteOwn(p) \/ DeleteCache(p) \/ DeleteRow(p)
         \/ ListCallWith(p, Users, {0, 1}, {0 - 1, 1})
         \/ ListCount(p) \/ ListRows(p)

SpecList == Init /\ [][NextList]_vars

(***************************************************************************)
(* The failing-store workload: one link, created with or without expiry    *)
(* and deactivated, is read and clicked while the clock advances and the   *)
(* store's reads may fail.                                                 *)
(***************************************************************************)
NextFault ==
    \/ Tick
    \/ \E p \in Procs :
         \/ CreateCallWith(p, {TargetA}, {CodeA}, ExpiryInputs, {1})
         \/ CreateGetUser(p) \/ CreateExists(p) \/ CreateInsert(p) \/ CreateCache(p)
         \/ UpdateCallWith(p, {CodeA}, {Patch(Empty, "false", NoTime)}, {1})
         \/ UpdateOwn(p) \/ UpdateRead(p) \/ UpdateWrite(p) \/ UpdateCache(p)
         \/ GetCallWith(p, {CodeA, CodeB})
         \/ RecordCallWith(p, {CodeA})
         \/ GetReadWith(p, ReadFaults) \/ GetCache(p)
         \/ RecordEvent(p) \/ RecordIncrement(p) \/ RecordCache(p)

SpecFault == Init /\ [][NextFault]_vars

(***************************************************************************)
(* The quota workload: owner 1, whose limit is one link less than there    *)
(* are codes to take, creates links under three codes, one call after      *)
(* another or two at a time, and deletes them.                             *)
(***************************************************************************)
InitQuota ==
    /\ now = 0
    /\ urls = {}
    /\ nextId = 1
    /\ users = [u \in Users |-> [link_count |-> 0, link_limit |-> UserLinkLimit - 1]]
    /\ click_events = {}
    /\ cacheURL = [c \in Codes |-> NoEntry]
    /\ cacheClicks = [c \in Codes |-> 0]
    /\ call = [p \in Procs |-> Idle]
    /\ started = 0
    /\ beside = [p \in Procs |-> FALSE]
    /\ MailIdle
    /\ otp_verifications = <<>>
    /\ lastWrite = [c \in Codes |-> [kind |-> "none", by |-> 0]]

NextQuota ==
    \E p \in Procs :
       \/ CreateCallWith(p, {TargetA}, {CodeA, CodeB, CodeH}, {NoTime}, {1})
       \/ CreateGetUser(p) \/ CreateExists(p) \/ CreateInsert(p) \/ CreateCache(p)
       \/ DeleteCallWith(p, {CodeA}, {1})
       \/ DeleteOwn(p) \/ DeleteCache(p) \/ DeleteRow(p)

SpecQuota == InitQuota /\ [][NextQuota]_vars

(***************************************************************************)
(* The takeover workload: owner 1 holds a link, updates and deletes it,    *)
(* and user 2 asks for the same custom code.                               *)
(***************************************************************************)
OwnedLink ==
    [ id |-> 1, short_code |-> CodeA, original_url |-> NormalizeURL(TargetA),
      user_id |-> 1, click_count |-> 0, is_active |-> TRUE, expires_at |-> NoTime,
      created_at |-> 0 ]

InitTakeover ==
    /\ now = 0
    /\ urls = {OwnedLink}
    /\ nextId = 2
    /\ users = [u \in Users |-> [link_count |-> IF u = 1 THEN 1 ELSE 0,
                                 link_limit |-> UserLinkLimit]]
    /\ click_events = {}
    /\ cacheURL = [c \in Codes |-> IF c = CodeA THEN OwnedLink.original_url ELSE NoEntry]
    /\ cacheClicks = [c \in Codes |-> 0]
    /\ call = [p \in Procs |-> Idle]
    /\ started = 0
    /\ beside = [p \in Procs |-> FALSE]
    /\ MailIdle
    /\ otp_verifications = <<>>
    /\ lastWrite = [c \in Codes |-> IF c = CodeA THEN [kind |-> "insert", by |-> 0]
                                    ELSE [kind |-> "none", by |-> 0]]

NextTakeover ==
    \E p \in Procs :
       \/ UpdateCallWith(p, {CodeA}, OwnerPatches, {1})
       \/ UpdateOwn(p) \/ UpdateRead(p) \/ UpdateWrite(p) \/ UpdateCache(p)
       \/ DeleteCallWith(p, {CodeA}, {1})
       \/ DeleteOwn(p) \/ DeleteCache(p) \/ DeleteRow(p)
       \/ CreateCallWith(p, {TargetA}, {CodeA}, {NoTime}, {2})
       \/ CreateGetUser(p) \/ CreateExists(p) \/ CreateInsert(p) \/ CreateCache(p)

SpecTakeover == InitTakeover /\ [][NextTakeover]_vars

(***************************************************************************)
(* The owner-scoped workload: owner 1 holds a link; both users call the    *)
(* owner-scoped operations on its code and on a code nobody holds.         *)
(***************************************************************************)
NextScoped ==
    \E p \in Procs :
       \/ UpdateCallWith(p, {CodeA, CodeB}, OwnerPatches, Users)
       \/ UpdateOwn(p) \/ UpdateRead(p) \/ UpdateWrite(p) \/ UpdateCache(p)
       \/ DeleteCallWith(p, {CodeA, CodeB}, Users)
       \/ DeleteOwn(p) \/ DeleteCache(p) \/ DeleteRow(p)
       \/ ScopedCallWith(p, {"GetURLStats", "GetAnalytics"}, {CodeA, CodeB}, Users)
       \/ ScopedOwn(p) \/ AnalyticsQuery(p) \/ StatsClicks(p)
       \/ QRCallWith(p, {CodeA, CodeB}, Users)
       \/ QRRespond(p)
       \/ GetRead(p) \/ GetCache(p)

SpecScoped == InitTakeover /\ [][NextScoped]_vars

(***************************************************************************)
(* The serial workload: calls that do not overlap, with every cache call   *)
(* succeeding; no cache entry reaches its TTL.                             *)
(***************************************************************************)
\* No call is under way.
Quiet == \A q \in Procs : call[q].pc = "done"

NextSerial ==
    \/ Tick
    \/ \E p \in Procs :
         \/ Quiet /\ CreateCallWith(p, {TargetA}, {CodeA, CodeB}, ExpiryInputs, Users)
         \/ CreateGetUser(p) \/ CreateExists(p) \/ CreateInsert(p)
         \/ CreateCache(p) /\ call'[p].cacheOK
         \/ Quiet /\ GetCallWith(p, {CodeA, CodeB})
         \/ GetRead(p)
         \/ GetCache(p) /\ call'[p].cacheOK
         \/ Quiet /\ UpdateCallWith(p, {CodeA, CodeB}, Patches, Users)
         \/ UpdateOwn(p) \/ UpdateRead(p) \/ UpdateWrite(p)
         \/ UpdateCache(p) /\ call'[p].cacheOK
         \/ Quiet /\ DeleteCallWith(p, {CodeA, CodeB}, Users)
         \/ DeleteOwn(p) \/ DeleteRow(p)
         \/ DeleteCache(p) /\ call'[p].cacheOK
         \/ Quiet /\ RecordCallWith(p, {CodeA, CodeB})
         \/ RecordEvent(p) \/ RecordIncrement(p)
         \/ RecordCache(p) /\ call'[p].cacheOK

SpecSerial == Init /\ [][NextSerial]_vars


(***************************************************************************)
(* The click workload: owner 1 holds a link; it is clicked while its owner *)
(* deletes it and the other user takes the code.                           *)
(***************************************************************************)
NextClicks ==
    \E p \in Procs :
       \/ RecordCallWith(p, {CodeA})
       \/ GetRead(p) \/ GetCache(p)
       \/ RecordEvent(p) \/ RecordIncrement(p) \/ RecordCache(p)
       \/ DeleteCallWith(p, {CodeA}, {1})
       \/ DeleteOwn(p) \/ DeleteCache(p) \/ DeleteRow(p)
       \/ CreateCallWith(p, {TargetB}, {CodeA}, {NoTime}, {2})
       \/ CreateGetUser(p) \/ CreateExists(p) \/ CreateInsert(p) \/ CreateCache(p)

SpecClicks == InitTakeover /\ [][NextClicks]_vars


(***************************************************************************)
(* The account workload: a user creates and deletes links while the user   *)
(* row is rewritten.                                                       *)
(***************************************************************************)
NextUsers ==
    \E p \in Procs :
       \/ CreateCallWith(p, {TargetA}, {CodeA, CodeB}, {NoTime}, {1})
       \/ CreateGetUser(p) \/ CreateExists(p) \/ CreateInsert(p) \/ CreateCache(p)
       \/ DeleteCallWith(p, {CodeA, CodeB}, {1})
       \/ DeleteOwn(p) \/ DeleteCache(p) \/ DeleteRow(p)
       \/ UserCallWith(p, UserOps, {1})
       \/ UserRead(p) \/ UserWrite(p)

SpecUsers == Init /\ [][NextUsers]_vars


(***************************************************************************)
(* The mail workload: messages are published and consumed; the consumer    *)
(* loop keeps running and the broker fires the TTL of the delay queue.     *)
(***************************************************************************)
NextMail == PublishEmail \/ ConsumeHandle \/ ConsumeSettle \/ DelayExpire

SpecMail ==
    /\ Init /\ [][NextMail]_vars
    /\ WF_vars(ConsumeHandle) /\ WF_vars(ConsumeSettle) /\ WF_vars(DelayExpire)


(***************************************************************************)
(* The OTP workload: user 1, who has verified a password-reset OTP before, *)
(* asks for new OTPs and verifies them, one call at a time, while the      *)
(* clock advances.                                                         *)
(***************************************************************************)
VerifiedOTP ==
    [ id |-> 1, user_id |-> 1, otp_code |-> "111111", purpose |-> "password_reset",
      is_verified |-> TRUE, expires_at |-> 0, created_at |-> 0, deleted |-> FALSE ]

InitOTP ==
    /\ now = 0
    /\ urls = {}
    /\ nextId = 1
    /\ users = [u \in Users |-> [link_count |-> 0, link_limit |-> UserLinkLimit]]
    /\ click_events = {}
    /\ cacheURL = [c \in Codes |-> NoEntry]
    /\ cacheClicks = [c \in Codes |-> 0]
    /\ call = [p \in Procs |-> Idle]
    /\ started = 0
    /\ beside = [p \in Procs |-> FALSE]
    /\ MailIdle
    /\ otp_verifications = <<VerifiedOTP>>
    /\ lastWrite = [c \in Codes |-> [kind |-> "none", by |-> 0]]

NextOTP ==
    \/ Tick
    \/ \E p \in Procs :
         \/ Quiet /\ GenerateCallWith(p, {1}, {"email_verification", "password_reset"},
                                               {"111111", "222222"})
         \/ GenerateDelete(p) \/ GenerateInsert(p)
         \/ Quiet /\ VerifyCallWith(p, {1}, {"email_verification", "password_reset"},
                                    {"111111", "222222"})
         \/ VerifyRead(p) \/ VerifyUpdate(p)
         \/ UserRead(p) \/ UserWrite(p)

SpecOTP == InitOTP /\ [][NextOTP]_vars


(***************************************************************************)
(* Properties.                                                             *)
(***************************************************************************)
Done(p) == call[p].pc = "done"
Creating(p) == call[p].op = "CreateURL"
Taken(code) == \E r \in urls : r.short_code = code

\* C1: in every reachable state, under any interleaving of concurrent creates
\* (custom or generated codes, same or different owners), no two rows of urls
\* have the same short_code.
C1_UniqueCodes ==
    \A r1 \in urls, r2 \in urls : r1.short_code = r2.short_code => r1 = r2

\* C1 witness: an insert that had passed its existence check was refused
\* because a concurrent create of the other owner had taken the code.
C1_Witness ==
    \E p \in Procs :
       /\ Creating(p) /\ call[p].conflict
       /\ \E r \in urls : r.short_code = call[p].shortCode /\ r.user_id # call[p].userID
       /\ Cardinality(urls) = 2

\* C2 as stated: a create whose request passed validation and whose custom code
\* was held by a link when the call began, and still is, fails with
\* ALREADY_EXISTS without an insert or a cache write.
C2_TakenCodeAlwaysAlreadyExists ==
    \A p \in Procs :
       ( /\ Creating(p) /\ Done(p) /\ call[p].quota # "unread"
         /\ call[p].reqCustom # Empty /\ call[p].held0 /\ Taken(call[p].reqCustom) )
       => /\ call[p].ret = "ALREADY_EXISTS"
          /\ call[p].io.insert = 0 /\ call[p].io.cacheSet = 0

\* C2 amended: a create with a valid request by an owner below the link limit
\* runs the existence check of its custom code, and when that check finds the
\* code held (by a link of any owner) the call fails with ALREADY_EXISTS and
\* has issued no insert and no cache call.
C2_TakenCodeAtCheck ==
    \A p \in Procs :
       (Creating(p) /\ Done(p) /\ call[p].reqCustom # Empty)
       => /\ call[p].quota = "below" => call[p].io.exists = 1
          /\ call[p].held => /\ call[p].ret = "ALREADY_EXISTS"
                             /\ call[p].io.insert = 0
                             /\ call[p].io.cacheSet = 0 /\ call[p].io.cacheDel = 0

\* C2 witness: a create was refused for a custom code held by the other owner.
C2_Witness ==
    \E p \in Procs :
       /\ Creating(p) /\ Done(p) /\ call[p].held /\ call[p].ret = "ALREADY_EXISTS"
       /\ \E r \in urls : r.short_code = call[p].reqCustom /\ r.user_id # call[p].userID

\* C3: when a create with a custom code has passed the existence check and its
\* insert meets the uniqueness constraint (a concurrent create took the code),
\* the call fails with ALREADY_EXISTS.
C3_ConflictIsAlreadyExists ==
    \A p \in Procs :
       (Creating(p) /\ Done(p) /\ call[p].reqCustom # Empty /\ call[p].conflict)
       => call[p].ret = "ALREADY_EXISTS"

\* C4: when a create without a custom code has its insert refused by the
\* uniqueness constraint, the call does not end there with that failure: it
\* makes one more generation attempt.
C4_RetryAfterConflict ==
    \A p \in Procs :
       (Creating(p) /\ call[p].reqCustom = Empty /\ call[p].conflict)
       => ~(Done(p) /\ call[p].ret = "DATABASE_ERROR" /\ call[p].io.insert = 1)

\* C9: a create by an owner whose link count is not below the link limit fails
\* with VALIDATION_ERROR and has issued no existence check, no insert and no
\* cache call.
C9_QuotaBeforeAllocation ==
    \A p \in Procs :
       (Creating(p) /\ Done(p) /\ call[p].quota = "at limit")
       => call[p].ret = "VALIDATION_ERROR" /\ call[p].io = NoIO

\* C9 witness: an owner holding as many links as the limit allows was refused.
C9_Witness ==
    \E p \in Procs :
       /\ Creating(p) /\ Done(p) /\ call[p].quota = "at limit"
       /\ call[p].ret = "VALIDATION_ERROR"
       /\ Cardinality({r \in urls : r.user_id = call[p].userID}) = UserLinkLimit

\* C10: a create without a custom code for which every generated candidate is
\* reported as existing ends with INTERNAL_ERROR after exactly maxAttempts
\* existence checks, with no insert and no cache write; it never stops earlier
\* and never checks more often.
C10_GenerationTerminates ==
    \A p \in Procs :
       (Creating(p) /\ call[p].reqCustom = Empty)
       => /\ call[p].pc = "c_gen" => call[p].io.exists = call[p].i /\ call[p].i < maxAttempts
          /\ call[p].io.exists <= maxAttempts
          /\ (Done(p) /\ call[p].io.exists > 0 /\ call[p].shortCode = Empty)
             => /\ call[p].ret = "INTERNAL_ERROR"
                /\ call[p].io.exists = maxAttempts
                /\ call[p].io.insert = 0 /\ call[p].io.cacheSet = 0
          /\ call[p].ret = "INTERNAL_ERROR" => call[p].shortCode = Empty

\* C10 witness: a create gave up after maxAttempts candidates that all existed.
C10_Witness ==
    \E p \in Procs :
       /\ Creating(p) /\ Done(p) /\ call[p].ret = "INTERNAL_ERROR"
       /\ call[p].io.exists = maxAttempts /\ call[p].io.insert = 0

Getting(p) == call[p].op = "GetURL"

\* The step in which the GetURL that p runs (on its own or inside RecordClick)
\* makes its cache call and returns.
GetReturns(p) == call[p].pc = "g_cache" /\ call'[p].pc # "g_cache"

\* The row p read is past its expires_at at the time of the read.
ReadExpired(p) ==
    /\ call[p].url # NoURL /\ call[p].url.expires_at # NoTime
    /\ call[p].url.expires_at < call[p].tRead

SameRead(p, q) ==
    /\ Getting(p) /\ Done(p) /\ Getting(q) /\ Done(q)
    /\ call[p].tRead # NoTime /\ call[p].tRead = call[q].tRead
    /\ call[p].shortCode = call[q].shortCode
    /\ call[p].url = call[q].url

\* C7: the outcome of GetURL is a function of the store state and the time:
\* two calls on the same code that read the same row (or both none) at the
\* same time return the same outcome, whatever each found in the cache.
C7_OutcomeIgnoresCache ==
    \A p \in Procs, q \in Procs : SameRead(p, q) => call[p].ret = call[q].ret

\* C7 witness: two such calls, one of which found a cache entry and the other
\* none, on a row that is not servable.
C7_Witness ==
    \E p \in Procs, q \in Procs :
       /\ SameRead(p, q)
       /\ call[p].sawCache # NoEntry /\ call[q].sawCache = NoEntry
       /\ call[p].ret \in {"URL_EXPIRED", "URL_INACTIVE"}

\* A GetURL of q that read the row p's successful create inserted, before any
\* update of it and before its expiry.
ReadsCreated(p, q) ==
    /\ Creating(p) /\ Done(p) /\ call[p].ret = "ok"
    /\ Getting(q) /\ Done(q)
    /\ call[q].url # NoURL /\ call[q].url.id = call[p].url.id
    /\ call[q].sawWrite = "insert"
    /\ ~ReadExpired(q)

ReturnsCreated(p, q) ==
    /\ call[q].ret = "ok"
    /\ call[q].url.is_active
    /\ call[q].url.user_id = call[p].userID
    /\ call[q].url.original_url = NormalizeURL(call[p].rawURL)

\* A step of a GetURL call leaves the urls table as it is.
ReadOnly(q) ==
    (call[q].op = "GetURL" /\ call[q].pc \in {"g_read", "g_cache"} /\ call'[q] # call[q])
    => urls' = urls

Updating(p) == call[p].op = "UpdateURL"

\* The step in which an UpdateURL whose cache call succeeded returns its record.
UpdateReturns(p) ==
    /\ call[p].pc = "u_cache" /\ call'[p].pc = "done"
    /\ call'[p].ret = "ok" /\ call'[p].cacheOK

\* The update flipped is_active or changed expires_at of the row it read.
Flipped(p) ==
    /\ call[p].reqActive # "nil"
    /\ call[p].was.is_active # (call[p].reqActive = "true")

Rescheduled(p) ==
    /\ call[p].reqExpires # NoTime
    /\ call[p].was.expires_at # call[p].reqExpires

\* The record the update stored is past its expires_at at time t.
StoredExpired(p, t) ==
    call[p].url.expires_at # NoTime /\ call[p].url.expires_at < t

\* C11 as stated: when a successful UpdateURL without a failed cache call
\* returns, the url cache entry of the code is absent if the update flipped
\* is_active or changed expires_at or the stored record is inactive or (now)
\* expired, and is the stored target otherwise.
C11_CacheAfterUpdateAtReturn ==
    [][ \A p \in Procs :
          UpdateReturns(p) =>
             cacheURL'[call[p].shortCode] =
                IF \/ Flipped(p) \/ Rescheduled(p)
                   \/ ~call[p].url.is_active \/ StoredExpired(p, now')
                THEN NoEntry ELSE call[p].url.original_url ]_vars

\* C11 amended: the same, with "expired" meaning expired when UpdateURL
\* checked the stored record (right after its write), not when it returns.
C11_CacheAfterUpdate ==
    [][ \A p \in Procs :
          UpdateReturns(p) =>
             cacheURL'[call[p].shortCode] =
                IF \/ Flipped(p) \/ Rescheduled(p)
                   \/ ~call[p].url.is_active \/ StoredExpired(p, call[p].tCheck)
                THEN NoEntry ELSE call[p].url.original_url ]_vars

\* C11 witness: one update has changed the target only and the cache holds the
\* new target; another has changed expires_at of a cached link and the cache
\* entry is gone.
C11_Witness ==
    \E p \in Procs, q \in Procs :
       /\ Updating(p) /\ Done(p) /\ call[p].ret = "ok" /\ call[p].cacheOK
       /\ call[p].io.cacheSet = 1
       /\ call[p].was.original_url # call[p].url.original_url
       /\ Updating(q) /\ Done(q) /\ call[q].ret = "ok" /\ call[q].cacheOK
       /\ call[q].io.cacheDel = 1
       /\ call[q].reqExpires # NoTime /\ call[q].reqActive = "nil"
       /\ call[q].url.is_active /\ ~StoredExpired(q, call[q].tCheck)
       /\ cacheURL[call[q].shortCode] = NoEntry

\* C12: once a DeleteURL has completed successfully (its own eviction having
\* succeeded), no url cache entry of the code exists, also when a GetURL on
\* the code (and no other call: the create of the link had returned before)
\* runs concurrently with it.
C12_NoEntryAfterDelete ==
    [][ \A p \in Procs :
          ( /\ call[p].op = "DeleteURL" /\ call[p].pc = "d_delete"
            /\ call'[p].pc = "done" /\ call'[p].ret = "ok" /\ call[p].cacheOK
            /\ lastWrite[call[p].shortCode] = [kind |-> "insert", by |-> p]
            /\ \A q \in Procs \ {p} : call[q].op = "GetURL" )
          => cacheURL'[call[p].shortCode] = NoEntry ]_vars

\* The ownership check of p's UpdateURL or DeleteURL meets a row of the code
\* that belongs to another user.
ChecksForeign(p) ==
    /\ call[p].pc \in {"u_own", "d_own"}
    /\ call'[p] # call[p]
    /\ \E r \in urls : r.short_code = call[p].shortCode /\ r.user_id # call[p].userID

\* The ownership check of p's UpdateURL or DeleteURL finds no row of the code
\* at all.
ChecksMissing(p) ==
    /\ call[p].pc \in {"u_own", "d_own"}
    /\ call'[p] # call[p]
    /\ ~Taken(call[p].shortCode)

Recording(p) == call[p].op = "RecordClick"

\* The GetURL inside p's RecordClick has read the store and found no row, or
\* a row that is expired or inactive.
ReadDead(p) ==
    /\ Recording(p) /\ call[p].tRead # NoTime
    /\ \/ call[p].url = NoURL
       \/ ReadExpired(p)
       \/ ~call[p].url.is_active

\* The GetURL error that belongs to what p read.
DeadError(p) ==
    IF call[p].url = NoURL THEN "NOT_FOUND"
    ELSE IF ReadExpired(p) THEN "URL_EXPIRED"
    ELSE "URL_INACTIVE"

\* C14: a RecordClick on a code that is missing, expired or inactive in the
\* store fails with the corresponding GetURL error, and no step of it appends
\* a click event or increments click_count or the cache click counter,
\* whatever the cache holds.
C14_NoClickOnDeadLink ==
    [][ \A p \in Procs :
          (call'[p] # call[p] /\ ReadDead(p)')
          => /\ call'[p].ret = DeadError(p)'
             /\ call'[p].pc \in {"g_cache", "done"}
             /\ UNCHANGED <<urls, click_events, cacheClicks>> ]_vars

\* C14 witness: a click on a deactivated link whose target was still cached
\* has failed with URL_INACTIVE; no click is recorded anywhere.
C14_Witness ==
    \E p \in Procs :
       /\ Recording(p) /\ Done(p) /\ call[p].ret = "URL_INACTIVE"
       /\ call[p].sawCache # NoEntry
       /\ click_events = {} /\ cacheClicks[call[p].shortCode] = 0
       /\ \A r \in urls : r.click_count = 0

\* The positions at which a call issues a cache call.
CachePcs == {"c_cache", "g_cache", "u_cache", "d_cache", "r_cache"}

\* Where a call stands, and with which result, after a successful cache call.
AfterCacheOK(rec) ==
    CASE rec.pc = "g_cache" ->
            [pc |-> IF rec.op = "RecordClick" /\ rec.ret = "ok" THEN "r_event" ELSE "done",
             ret |-> rec.ret]
      [] rec.pc = "d_cache" -> [pc |-> "d_delete", ret |-> rec.ret]
      [] OTHER -> [pc |-> "done", ret |-> "ok"]

\* C15: for each of CreateURL, GetURL, UpdateURL, DeleteURL and RecordClick, a
\* cache call (set, delete or increment) that fails leaves the call with the
\* same result, the same position and the same locals as the cache call that
\* succeeds, and neither of them writes to the store; so the result returned
\* and the store writes that follow are the same.
C15_CacheFailureInvisible ==
    [][ \A p \in Procs :
          (call[p].pc \in CachePcs /\ call'[p] # call[p])
          => /\ UNCHANGED <<urls, users, click_events, nextId>>
             /\ [pc |-> call'[p].pc, ret |-> call'[p].ret] = AfterCacheOK(call[p])
             /\ [call'[p] EXCEPT !.pc = call[p].pc, !.ret = call[p].ret,
                                 !.io = call[p].io, !.cacheOK = call[p].cacheOK]
                = call[p] ]_vars

\* C15 witness: a delete whose eviction failed has succeeded and removed the
\* row, leaving the stale cache entry behind.
C15_Witness ==
    \E p \in Procs :
       /\ call[p].op = "DeleteURL" /\ Done(p) /\ call[p].ret = "ok"
       /\ ~call[p].cacheOK
       /\ ~Taken(call[p].shortCode)
       /\ cacheURL[call[p].shortCode] # NoEntry

\* C16: whatever the interleaving of creates, reads, updates and clicks, the
\* click_count of a row is never negative and never decreases while the row
\* exists; an update does not lower or reset it, also when a click is
\* recorded while the update is under way.
C16_ClickCountMonotone ==
    [][ \A r \in urls, r2 \in urls' :
          r2.id = r.id => r2.click_count >= r.click_count /\ r.click_count >= 0 ]_vars

\* C16 witness: a click was recorded between the read and the write of an
\* update, and the row still has it after the write.
C16_Witness ==
    \E p \in Procs, r \in urls :
       /\ Updating(p) /\ call[p].hit # NoURL
       /\ r.id = call[p].hit.id
       /\ call[p].was.click_count < call[p].hit.click_count
       /\ r.click_count = call[p].hit.click_count

Redirecting(p) == call[p].op = "RedirectURL"

C18_RedirectClassification ==
    \A p \in Procs :
       (Redirecting(p) /\ Done(p)) =>
          call[p].resp =
             IF call[p].got = "ok"
             THEN [status |-> 301, page |-> "none", target |-> call[p].target, code |-> "none"]
             ELSE [status |-> 302,
                   page |-> CASE call[p].got = "URL_EXPIRED" -> "/error/expired"
                              [] call[p].got = "URL_INACTIVE" -> "/error/inactive"
                              [] call[p].got = "NOT_FOUND" -> "/error/not-found"
                              [] OTHER -> "/error/server-error",
                   target |-> Empty, code |-> "none"]

\* The request of call rec is malformed at time t: its target cannot be
\* parsed or has no host (a create request must carry one, an update request
\* may leave it out), its expiry is in the past, or its custom code is not
\* 3 to 20 characters of [A-Za-z0-9-].
Malformed(rec, t) ==
    LET parsed == ParseURL(NormalizeURL(rec.rawURL))
    IN  \/ (rec.op = "CreateURL" \/ rec.rawURL # Empty) /\ (parsed.err \/ parsed.Host = Empty)
        \/ rec.reqExpires # NoTime /\ rec.reqExpires < t
        \/ /\ rec.op = "CreateURL" /\ rec.reqCustom # Empty
           /\ \/ Len(rec.reqCustom) \notin 3..20
              \/ \E k \in 1..Len(rec.reqCustom) :
                    rec.reqCustom[k] \notin Lower \cup Upper \cup Digit \cup {"-"}

\* Goroutine p takes up a create or update request in this step.
Enters(p) ==
    /\ started' = started + 1 /\ call'[p] # call[p]
    /\ call'[p].op \in {"CreateURL", "UpdateURL"}

\* C19: a CreateURL or UpdateURL call whose request fails validation returns
\* VALIDATION_ERROR at once and leaves the store (urls, users, click_events)
\* and the cache as they were before the call.
C19_InvalidRequestChangesNothing ==
    [][ \A p \in Procs :
           (Enters(p) /\ Malformed(call'[p], now))
           => /\ call'[p].pc = "done" /\ call'[p].ret = "VALIDATION_ERROR"
              /\ StatusCode(call'[p].ret) = 400
              /\ UNCHANGED <<urls, nextId, users, click_events, cacheURL, cacheClicks>> ]_vars

\* C19 witness: with a link stored and cached, a create request and an
\* update request have both been turned down by validation.
C19_Witness ==
    \E p \in Procs, q \in Procs :
       /\ call[p].op = "CreateURL" /\ Done(p) /\ Malformed(call[p], now)
       /\ call[p].ret = "VALIDATION_ERROR" /\ call[p].io = NoIO
       /\ call[q].op = "UpdateURL" /\ Done(q) /\ Malformed(call[q], now)
       /\ call[q].ret = "VALIDATION_ERROR"
       /\ \E r \in urls : r.short_code = CodeA /\ cacheURL[CodeA] = r.original_url

Normalizing(p) == call[p].op = "NormalizeURL"

\* C20: URL normalisation is idempotent: whatever the input, normalising the
\* normalised value again leaves it as the first normalisation left it;
\* example.com becomes https://example.com and https://example.com stays as
\* it is.
C20_NormalizeIdempotent ==
    \A p \in Procs :
       (Normalizing(p) /\ call[p].passes >= 1) =>
          /\ call[p].reqURL = call[p].first
          /\ call[p].rawURL = ExampleCom => call[p].reqURL = HttpsPrefix \o ExampleCom
          /\ call[p].rawURL = HttpsPrefix \o ExampleCom => call[p].reqURL = call[p].rawURL

\* C20 witness: example.com has been normalised twice, and so has a padded
\* string that carries a scheme already.
C20_Witness ==
    \E p \in Procs, q \in Procs :
       /\ Normalizing(p) /\ call[p].passes = 2 /\ call[p].rawURL = ExampleCom
       /\ call[p].reqURL = HttpsPrefix \o ExampleCom
       /\ Normalizing(q) /\ call[q].passes = 2
       /\ call[q].rawURL = <<" ">> \o HttpPrefix \o ExampleCom \o <<" ">>
       /\ call[q].reqURL = HttpPrefix \o ExampleCom

\* C21: whatever CreateURL and UpdateURL calls have run, the target of every
\* stored link parses to a non-empty scheme and a non-empty host.
C21_StoredTargetHasSchemeAndHost ==
    \A r \in urls :
       LET parsed == ParseURL(r.original_url)
       IN  ~parsed.err /\ parsed.Scheme # "" /\ parsed.Host # Empty

\* C21 witness: a link created from a target without scheme has been given
\* a new target by an update, after requests with host-less targets.
C21_Witness ==
    \E p \in Procs, q \in Procs :
       /\ call[p].op = "UpdateURL" /\ Done(p) /\ call[p].ret = "ok"
       /\ call[p].rawURL = TargetB
       /\ call[q].op = "UpdateURL" /\ Done(q) /\ call[q].rawURL = HttpPrefix
       /\ \E r \in urls : r.short_code = CodeA /\ r.original_url = TargetB

Generated(p) == call[p].op = "generateShortCode" /\ Done(p)

\* The byte values that select character c.
SelectedBy(c) == { b \in ByteValues : charset[randomInt(b, Len(charset)) + 1] = c }

\* C22: the generator returns exactly 8 characters, each from [a-zA-Z0-9],
\* and draws them uniformly: every one of the 62 alphabet characters is
\* selected by as many values of the random byte as the characters drawn.
C22_GeneratorUniform ==
    \A p \in Procs :
       Generated(p) =>
          /\ Len(call[p].shortCode) = 8
          /\ \A k \in 1..Len(call[p].shortCode) :
                /\ call[p].shortCode[k] \in Lower \cup Upper \cup Digit
                /\ \A c \in Lower \cup Upper \cup Digit :
                      Cardinality(SelectedBy(c)) = Cardinality(SelectedBy(call[p].shortCode[k]))

\* C23: in every reachable state each click event references a stored link:
\* a successful DeleteURL removes the link with all its click events, and a
\* RecordClick that interleaves with the DeleteURL of the same code leaves no
\* click event of the deleted link behind.
C23_ClickEventsReferenceLinks ==
    \A e \in click_events : \E r \in urls : r.id = e.url_id

\* C23 witness: a RecordClick has inserted its click event and has its
\* increment still to do, and a DeleteURL of the same code has returned
\* meanwhile, taking the link and the event with it.
C23_Witness ==
    \E p \in Procs, q \in Procs :
       /\ Recording(p) /\ call[p].pc = "r_incr"
       /\ call[q].op = "DeleteURL" /\ Done(q) /\ call[q].ret = "ok"
       /\ call[q].shortCode = call[p].shortCode
       /\ lastWrite[call[p].shortCode] = [kind |-> "delete", by |-> q]
       /\ urls = {} /\ click_events = {}

Listing(p) == call[p].op = "GetAllURLs"

\* C24: GetAllURLs returns only links of the caller, and the total it
\* returns is the number of links the caller has in the store when they are
\* counted, whatever links other owners hold.
C24_ListIsOwnersOnly ==
    [][ \A p \in Procs :
           /\ (Listing(p) /\ call[p].pc = "l_count" /\ call'[p].pc = "l_rows")
              => call'[p].total =
                    Cardinality({r \in urls : r.user_id = call[p].userID})
           /\ (Listing(p) /\ call[p].pc = "l_rows" /\ call'[p].pc = "done")
              => /\ \A k \in 1..Len(call'[p].rows) :
                       /\ call'[p].rows[k].user_id = call[p].userID
                       /\ call'[p].rows[k] \in urls
                 /\ Len(call'[p].rows) <= call[p].limit ]_vars

\* C24 witness: a caller has listed their links, one of them returned on
\* the page, while the other owner holds a link as well.
C24_Witness ==
    \E p \in Procs :
       /\ Listing(p) /\ Done(p) /\ call[p].ret = "ok"
       /\ call[p].total = 1 /\ Len(call[p].rows) = 1
       /\ call[p].rows[1].user_id = call[p].userID
       /\ \E r \in urls : r.user_id # call[p].userID

C26_UpdateWritesPatchOnly ==
    [][ \A p \in Procs :
           (Updating(p) /\ call[p].pc = "u_write" /\ call'[p] # call[p])
           => \A r \in urls :
                 r.short_code = call[p].shortCode
                 => \E w \in urls' :
                       /\ w.id = r.id /\ w.short_code = r.short_code
                       /\ w.user_id = r.user_id /\ w.click_count = r.click_count
                       /\ w.created_at = r.created_at
                       /\ call[p].reqURL = Empty => w.original_url = r.original_url
                       /\ call[p].reqActive = "nil" => w.is_active = r.is_active
                       /\ call[p].reqExpires = NoTime => w.expires_at = r.expires_at ]_vars

\* The links owner u holds.
Holds(u) == Cardinality({r \in urls : r.user_id = u})

BothUpdated(p, q) ==
    /\ p # q
    /\ Updating(p) /\ Done(p) /\ call[p].ret = "ok"
    /\ call[p].reqActive = "false" /\ call[p].reqURL = Empty /\ call[p].reqExpires = NoTime
    /\ Updating(q) /\ Done(q) /\ call[q].ret = "ok"
    /\ call[q].reqActive = "nil" /\ call[q].reqURL # Empty /\ call[q].reqExpires = NoTime
    /\ call[p].shortCode = call[q].shortCode
    /\ call[p].hit.id = call[q].hit.id

\* C28: two UpdateURL calls of the owner on one code with patches on
\* different fields, {is_active: false} and {original_url: T}, both take
\* effect: once both have returned successfully the stored record is
\* inactive and has target T.
C28_ConcurrentPatchesBothApply ==
    \A p \in Procs, q \in Procs :
       BothUpdated(p, q) =>
          \A r \in urls :
             r.id = call[p].hit.id => ~r.is_active /\ r.original_url = call[q].reqURL

\* C29: the store write of UpdateURL modifies no row whose owner, at the
\* moment of the write, is not the caller.
C29_UpdateWritesOwnRowsOnly ==
    [][ \A p \in Procs :
           (Updating(p) /\ call[p].pc = "u_write" /\ call'[p] # call[p])
           => \A r \in urls : r \notin urls' => r.user_id = call[p].userID ]_vars

\* C30: for each owner-scoped operation (update, delete, stats, analytics,
\* QR code), a caller who does not own the code receives the same response
\* whether the code exists under another owner or does not exist at all.
C30_NonOwnerCannotTellExistence ==
    \A p \in Procs, q \in Procs :
       (/\ Done(p) /\ Done(q)
        /\ call[p].op \in {"UpdateURL", "DeleteURL", "GetURLStats", "GetAnalytics",
                           "GenerateQRCode"}
        /\ call[q].op = call[p].op
        /\ call[q].userID = call[p].userID
        /\ \E r \in urls : r.short_code = call[p].shortCode /\ r.user_id # call[p].userID
        /\ ~\E r \in urls : r.short_code = call[q].shortCode
        /\ lastWrite[call[q].shortCode].kind = "none")
       => Answer(call[p]) = Answer(call[q])

\* C31: after any sequence of non-overlapping CreateURL, GetURL, UpdateURL,
\* DeleteURL and RecordClick calls in which no cache call fails, every url
\* cache entry belongs to a code that is stored, whose link is active, and
\* the cached value is the stored target of that link.
C31_CacheEntriesAreLive ==
    Quiet => \A c \in Codes :
                cacheURL[c] # NoEntry
                => \E r \in urls : /\ r.short_code = c /\ r.is_active
                                   /\ r.original_url = cacheURL[c]

\* C31 witness: an update has given a cached link a new target, and the
\* cache holds the new target.
C31_Witness ==
    /\ Quiet
    /\ \E p \in Procs :
          /\ Updating(p) /\ call[p].ret = "ok" /\ call[p].reqURL # Empty
          /\ cacheURL[call[p].shortCode] = call[p].reqURL
          /\ cacheURL[call[p].shortCode] # NormalizeURL(TargetA)

\* The click events recorded for link r.
EventsOf(r) == {e \in click_events : e.url_id = r.id}

\* C32: when no store call fails, every successful RecordClick appends one
\* click event and adds one to the click_count of the link, so that with no
\* call under way the click_count of every link is the number of click
\* events recorded for it; concurrent RecordClick calls on one code each add
\* one.
C32_ClickCountIsEventCount ==
    Quiet => \A r \in urls : r.click_count = Cardinality(EventsOf(r))

\* C33: with no call under way, the cache click counter of a code is not
\* greater than the click_count of the link stored under that code, and is
\* absent or 0 when no link holds the code, also after a DeleteURL followed
\* by a CreateURL that takes the same custom code.
C33_CacheCounterBounded ==
    Quiet => \A c \in Codes :
                IF \E r \in urls : r.short_code = c
                THEN \A r \in urls : r.short_code = c => cacheClicks[c] <= r.click_count
                ELSE cacheClicks[c] = 0

\* C34: with no call under way, the stored link_count of every user is the
\* number of links the user owns, under any interleaving of CreateURL and
\* DeleteURL with the operations that rewrite the user row.
C34_LinkCountIsLinksOwned ==
    Quiet => \A u \in Users : users[u].link_count = Holds(u)

\* The GetURL of p has returned, having read a row that was both past its
\* expires_at and inactive.
GotExpiredInactive(p) ==
    /\ Getting(p) /\ Done(p)
    /\ ReadExpired(p) /\ ~call[p].url.is_active

\* C35: GetURL on a stored link that is both past its expires_at and inactive
\* returns URL_EXPIRED, not URL_INACTIVE: the expiry check comes first.
C35_ExpiryBeforeActiveFlag ==
    \A p \in Procs : GotExpiredInactive(p) => call[p].ret = "URL_EXPIRED"

\* C35 witness: a GetURL has read an expired, deactivated link and returned
\* URL_EXPIRED.
C35_Witness ==
    \E p \in Procs : GotExpiredInactive(p) /\ call[p].ret = "URL_EXPIRED"

\* Message i is in a queue or in the consumer's hands.
Pending(i) ==
    \/ \E k \in DOMAIN email_queue : email_queue[k].id = i
    \/ \E k \in DOMAIN email_delay_queue : email_delay_queue[k].id = i
    \/ delivery.pc = "settle" /\ delivery.msg.id = i

\* C36: every email message is handed to the send handler at most
\* MaxRetries times; after a failed handling the consumer re-publishes it to
\* the delay queue, with Retry incremented, only while Retry is below
\* MaxRetries, and rejects it without requeue once Retry reaches MaxRetries;
\* the processing of every message terminates.
C36_RetriesBounded ==
    /\ [](\A i \in DOMAIN handled : handled[i].times <= handled[i].MaxRetries)
    /\ [][ (delivery.pc = "settle" /\ delivery'.pc = "wait")
           => LET msg == delivery.msg
              IN  /\ email_queue' = email_queue
                  /\ \/ email_delay_queue' = email_delay_queue
                     \/ /\ delivery.failed /\ msg.Retry + 1 < msg.MaxRetries
                        /\ email_delay_queue' =
                             Append(email_delay_queue, [msg EXCEPT !.Retry = @ + 1])
                  /\ (delivery.failed /\ msg.Retry + 1 >= msg.MaxRetries)
                     => ~Pending(msg.id)' ]_vars
    /\ \A i \in 1..MaxMail : [](Pending(i) => <>~Pending(i))

\* C36 witness: a message has failed MaxRetries times and has been rejected.
C36_Witness ==
    \E i \in DOMAIN handled :
       /\ handled[i].times = handled[i].MaxRetries
       /\ delivery.pc = "wait" /\ delivery.msg.id = i /\ delivery.failed
       /\ ~Pending(i)

\* The VerifyOTP of p has returned, having been given the code of the latest
\* unverified OTP of its email and purpose, which had not expired.
VerifiedMatching(p) ==
    /\ call[p].op = "VerifyOTP" /\ Done(p)
    /\ call[p].otp # NoOTP
    /\ call[p].otp.otp_code = call[p].otpCode
    /\ ~(call[p].tRead > call[p].otp.expires_at)

\* C37: VerifyOTP called with the matching code of the most recently
\* generated, unexpired and unverified OTP of an email and purpose returns
\* IsVerified = true and marks that OTP verified, however many earlier OTPs
\* of the same user and purpose have been verified.
C37_MatchingOTPVerifies ==
    \A p \in Procs :
       VerifiedMatching(p)
       => /\ call[p].ret = "ok" /\ call[p].isVerified
          /\ otp_verifications[call[p].otp.id].is_verified
====
